---- MODULE Spec2Model ----
(***************************************************************************)
(* Model of the transcriber pipeline's stateful core: the model cache     *)
(* manager (ensure_model / download_model / PartFileGuard), the URL        *)
(* downloader gate (download_audio / validate_url) and the two facade      *)
(* entry points with their TempDirGuard.                                   *)
(*                                                                         *)
(* Every invocation p is one operating-system process running one entry    *)
(* point.  The shared state is the file system: the set of existing        *)
(* directories and the map from existing file paths to file contents.      *)
(* Sizes are counted in units of 1000 bytes, so that the 5 GB ceiling fits *)
(* the checker's integers; every size the model draws is a multiple of it. *)
(***************************************************************************)
EXTENDS Integers, Sequences, FiniteSets, TLC

(* ---------------------------------------------------------------------- *)
(* Bounds                                                                  *)
(* ---------------------------------------------------------------------- *)
NumProcs == 2
MaxChunks == 2
MaxSamples == 4
MaxSegments == 2
MaxTokens == 2

Procs == 1..NumProcs

(* ---------------------------------------------------------------------- *)
(* Program constants                                                       *)
(* ---------------------------------------------------------------------- *)
\* model.rs:14  MAX_MODEL_BYTES = 5_000_000_000, in units of 1000 bytes
MAX_MODEL_KB == 5000000
\* model.rs:107 the literal 1_000_000, in units of 1000 bytes
MIN_MODEL_KB == 1000

(* ---------------------------------------------------------------------- *)
(* Paths: a directory (sequence of components) and a file name, the file   *)
(* name split at its dots ("ggml-tiny.en.bin" is <<"ggml-tiny","en","bin">>)*)
(* ---------------------------------------------------------------------- *)
Path(d, n) == [dir |-> d, name |-> n]
NoPath == Path(<<>>, <<>>)

join(d, filename) == Path(d, filename)

CacheDir == <<"/", "home", ".cache", "models">>
TempRoot == <<"/", "tmp">>

\* config.rs:93-107  enum Model, the named presets
NamedModels ==
  {"Tiny", "TinyEn", "Base", "BaseEn", "Small", "SmallEn", "Medium",
   "MediumEn", "LargeV2", "LargeV3", "LargeV3Turbo"}

\* the presets one invocation of the facade may ask for: one of each shape
\* of file name
RequestedModels == {"Tiny", "TinyEn"}

\* the preset the concurrent callers of a run all ask for: the file name
\* with two dots, of which with_extension replaces the last part only
RacedModels == {"TinyEn"}

\* config.rs:111-129  Model::filename
filename(m) ==
  CASE m = "Tiny" -> <<"ggml-tiny", "bin">>
    [] m = "TinyEn" -> <<"ggml-tiny", "en", "bin">>
    [] m = "Base" -> <<"ggml-base", "bin">>
    [] m = "BaseEn" -> <<"ggml-base", "en", "bin">>
    [] m = "Small" -> <<"ggml-small", "bin">>
    [] m = "SmallEn" -> <<"ggml-small", "en", "bin">>
    [] m = "Medium" -> <<"ggml-medium", "bin">>
    [] m = "MediumEn" -> <<"ggml-medium", "en", "bin">>
    [] m = "LargeV2" -> <<"ggml-large-v2", "bin">>
    [] m = "LargeV3" -> <<"ggml-large-v3", "bin">>
    [] m = "LargeV3Turbo" -> <<"ggml-large-v3-turbo", "bin">>

\* Path::with_extension: the part after the last dot of the file name is
\* replaced by the new extension; a name without a dot gets it appended.
with_extension(p, ext) ==
  IF Len(p.name) > 1
    THEN Path(p.dir, SubSeq(p.name, 1, Len(p.name) - 1) \o ext)
    ELSE Path(p.dir, p.name \o ext)

\* model.rs:83, the variant without the process id (as in the older crate)
tmp_path_nopid(dest, processId) == with_extension(dest, <<"bin", "part">>)

\* model.rs:83  dest.with_extension(format!("bin.part.{}", std::process::id()))
tmp_path(dest, processId) ==
  with_extension(dest, <<"bin", "part", ToString(processId)>>)


(* ---------------------------------------------------------------------- *)
(* Values                                                                  *)
(* ---------------------------------------------------------------------- *)
\* Option<u64> of Response::content_length
None == [some |-> FALSE, v |-> 0]
Some(n) == [some |-> TRUE, v |-> n]

\* Option::unwrap_or
unwrap_or(opt, d) == IF opt.some THEN opt.v ELSE d

\* config.rs Model: a named preset or Custom(path)
Named(m) == [custom |-> FALSE, name |-> m, path |-> NoPath]
Custom(path) == [custom |-> TRUE, name |-> "custom", path |-> path]
NoModel == [custom |-> FALSE, name |-> "none", path |-> NoPath]

\* error.rs Error: the variant, the message this crate formats into it (none
\* for the variants that wrap a foreign error), the path it carries
Error(kind, msg, path) == [kind |-> kind, msg |-> msg, path |-> path]
NoErr == Error("none", "", NoPath)

\* Result<PathBuf> / Result<Transcript> of an entry point
Pending == [tag |-> "none", kind |-> "", msg |-> "", path |-> NoPath]
Ok(path) == [tag |-> "Ok", kind |-> "", msg |-> "", path |-> path]
Err(e) == [tag |-> "Err", kind |-> e.kind, msg |-> e.msg, path |-> e.path]

\* A file: its length, the invocation whose stream filled it (0: a file that
\* was there before, -1: more than one writer), whether that stream had ended
\* when the last byte was written, and the length that stream's response
\* advertised.
File(size, by, eof, adv) == [size |-> size, by |-> by, eof |-> eof, adv |-> adv]
PriorModel == File(1200, 0, TRUE, None)
JunkModel == File(1, 0, TRUE, None)
OtherFile == File(1, 0, TRUE, None)

\* Files that exist whatever the cache holds: a custom model, a local audio
\* file, and a file outside every directory the program writes to.
CustomPresent == Path(<<"/", "models">>, <<"my", "bin">>)
CustomMissing == Path(<<"/", "nonexistent">>, <<"model", "bin">>)
AudioPresent == Path(<<"/", "data">>, <<"talk", "mp3">>)
AudioMissing == Path(<<"/", "data">>, <<"gone", "mp3">>)
EtcPasswd == Path(<<"/", "etc">>, <<"passwd">>)
BaseFiles == {CustomPresent, AudioPresent, EtcPasswd}

\* What the server may answer and send: the advertised lengths and the chunk
\* sizes of the body (units of 1000 bytes).
Advertised == {None, Some(0), Some(1200), Some(MAX_MODEL_KB + 1)}
Chunks == {600, MAX_MODEL_KB}

VARIABLES
  requested,   \* the named model the named requests of this run ask for
  files,       \* file system: existing file paths -> File
  dirs,        \* file system: existing directories
  pc,          \* per invocation: the statement it is at
  entry,       \* per invocation: the entry point it called
  model,       \* per invocation: options.model
  url,         \* per invocation: the url argument
  audio,       \* per invocation: the path argument / download_result.audio_path
  title,       \* per invocation: download_result.title
  model_path,  \* per invocation: the path ensure_model returned
  response,    \* download_model: response.content_length()
  total_size,  \* download_model: total_size
  downloaded,  \* download_model: downloaded
  chunks,      \* download_model: chunks the stream has yielded
  guard,       \* download_model: _part_guard ("none", "armed", "disarmed")
  err,         \* the error being propagated by `?`
  result,      \* per invocation: what the entry point returned
  transcript,  \* per invocation: the Transcript's source_url / source_title
  requests,    \* per invocation: HTTP requests sent
  spawned,     \* per invocation: external processes started
  lastRename,  \* the invocation whose rename into the cache succeeded last
  process_id,  \* per invocation: std::process::id() of its process
  processing,  \* load_audio: the AudioProcessing argument
  ffmpeg,      \* load_audio: what the decoder run came to
  samples,     \* load_audio: the sample buffer
  ran,         \* load_audio: the processing steps that have run, in order
  doc,         \* formatting: the Transcript whose methods are called
  srt,         \* formatting: what to_srt returned
  vtt,         \* formatting: what to_vtt returned
  options,     \* the TranscribeOptions the caller holds
  lang,        \* TranscribeOptions::language: its argument
  engine,      \* transcribe_samples: what the inference engine does in this call
  segments,    \* transcribe_samples: the Vec of Segments it builds
  params,      \* transcribe_samples: the FullParams passed to state.full
  json,        \* a Transcript, its JSON document and what is read back from it
  stages,      \* per invocation: the stages it has called so far, in order
  returned     \* transcribe_samples: the Transcript it returned

fsVars == <<files, dirs>>
argVars == <<requested, entry, model, url, process_id>>
dlVars == <<response, total_size, downloaded, chunks, guard>>
audioVars == <<processing, ffmpeg, samples, ran>>
\* the state of the stages that work on values only
fmtVars == <<doc, srt, vtt, json>>
tsVars == <<options, lang, engine, segments, params, returned>>
pureVars == <<audioVars, fmtVars, tsVars, stages>>
vars == <<requested, files, dirs, pc, entry, model, url, audio, title,
          model_path, response, total_size, downloaded, chunks, guard, err,
          result, transcript, requests, spawned, lastRename, process_id,
          pureVars>>

\* std::process::id() of invocation p
pid(p) == process_id[p]

exists(path) == path \in DOMAIN files

\* the final cache path of a named model
dest_of(m) == join(CacheDir, filename(m))

\* the final and the temp path of every preset and process id, tabulated
dest_paths == [m \in NamedModels |-> dest_of(m)]
tmp_paths == [m \in NamedModels |-> [i \in Procs |-> tmp_path(dest_of(m), i)]]

\* model.rs:29 model_path and model.rs:83 tmp_path of invocation p
dest(p) == dest_paths[model[p].name]
tmp(p) == tmp_paths[model[p].name][pid(p)]


(* ---------------------------------------------------------------------- *)
(* Control: how ensure_model's result reaches its caller (lib.rs `?`)      *)
(* ---------------------------------------------------------------------- *)
Goto(p, l) == pc' = [pc EXCEPT ![p] = l]

\* The entry point returns r to the user.
Finish(p, r) ==
  /\ Goto(p, "done")
  /\ result' = [result EXCEPT ![p] = r]
  /\ err' = [err EXCEPT ![p] = NoErr]

\* an error handler that notes the error and calls the decoder again
Raise_and_retry(p, e) ==
  /\ Goto(p, "load_audio")
  /\ err' = [err EXCEPT ![p] = e]
  /\ UNCHANGED result

\* An error leaves a stage of an entry point: transcribe_with_options still
\* holds its TempDirGuard, the other entry points return at once.
Raise(p, e) ==
  IF entry[p] = "transcribe_url"
    THEN /\ Goto(p, "tw_drop")
         /\ err' = [err EXCEPT ![p] = e]
         /\ UNCHANGED result
    ELSE Finish(p, Err(e))

\* invocation p calls the stages named in names, in that order
Called(p, names) ==
  /\ stages' = [stages EXCEPT ![p] = @ \o names]
  /\ UNCHANGED <<audioVars, fmtVars, tsVars>>

\* a facade that goes from model resolution straight to inference
EmReturnOk_to_inference(p, path) ==
  /\ model_path' = [model_path EXCEPT ![p] = path]
  /\ IF entry[p] = "ensure_model"
       THEN Finish(p, Ok(path))
       ELSE Goto(p, "transcribe") /\ UNCHANGED <<result, err>>

\* ensure_model returns Ok(path): lib.rs:55 / lib.rs:94, or the caller itself
EmReturnOk(p, path) ==
  /\ model_path' = [model_path EXCEPT ![p] = path]
  /\ IF entry[p] = "ensure_model"
       THEN Finish(p, Ok(path))
       ELSE Goto(p, "load_audio") /\ UNCHANGED <<result, err>>

\* ensure_model returns Err(e)
EmReturnErr(p, e) == Raise(p, e) /\ UNCHANGED model_path

\* the locals of download_model other than the guard
streamVars == <<response, total_size, downloaded, chunks>>

ClearStream(p) ==
  /\ response' = [response EXCEPT ![p] = None]
  /\ total_size' = [total_size EXCEPT ![p] = 0]
  /\ downloaded' = [downloaded EXCEPT ![p] = 0]
  /\ chunks' = [chunks EXCEPT ![p] = 0]

\* the locals of download_model go out of scope
ClearLocals(p) ==
  /\ ClearStream(p)
  /\ guard' = [guard EXCEPT ![p] = "none"]

\* download_model leaves its loop or its checks with an error: the guard's
\* drop runs next; the other locals are not read again
Fail(p, e) ==
  /\ Goto(p, "dm_drop")
  /\ err' = [err EXCEPT ![p] = e]
  /\ ClearStream(p)

(* ---------------------------------------------------------------------- *)
(* ensure_model (model.rs:18-47)                                           *)
(* ---------------------------------------------------------------------- *)
\* model.rs:21-25 losing the path in the error
custom_result_nopath(fs, path) ==
  IF path \in DOMAIN fs THEN Ok(path) ELSE Err(Error("ModelNotFound", "", NoPath))

\* model.rs:21-25: Ok(path.clone()) or Err(Error::ModelNotFound { path })
custom_result(fs, path) ==
  IF path \in DOMAIN fs THEN Ok(path) ELSE Err(Error("ModelNotFound", "", path))

\* model.rs:31 looking into the cached file as well
is_cached_checked(fs, path) == path \in DOMAIN fs /\ fs[path].size >= MIN_MODEL_KB

\* model.rs:31  model_path.exists()
is_cached(fs, path) == path \in DOMAIN fs

\* model.rs:19-34: the match on the model and the existence checks
EmMatch(p) ==
  /\ pc[p] = "em_match"
  /\ IF model[p].custom
       THEN LET r == custom_result(files, model[p].path) IN
              IF r.tag = "Ok"
                THEN EmReturnOk(p, r.path)
                ELSE EmReturnErr(p, Error(r.kind, r.msg, r.path))
       ELSE IF is_cached(files, dest(p))
              THEN EmReturnOk(p, dest(p))
              ELSE /\ Goto(p, "em_mkdir")
                   /\ UNCHANGED <<result, err, model_path>>
  /\ UNCHANGED <<argVars, fsVars, dlVars, audio, title, transcript, requests,
                 spawned, lastRename>>
  /\ Called(p, <<"ensure_model">>)

\* model.rs:36-38: create_dir_all(cache_dir), which may fail
EmMkdir(p) ==
  /\ pc[p] = "em_mkdir"
  /\ \/ /\ dirs' = dirs \cup {CacheDir}
        /\ Goto(p, "dm_send")
        /\ UNCHANGED <<result, err, model_path>>
     \/ /\ EmReturnErr(p, Error("Model", "failed to create cache dir", NoPath))
        /\ UNCHANGED dirs
  /\ UNCHANGED <<argVars, files, dlVars, audio, title, transcript, requests,
                 spawned, lastRename>>
  /\ UNCHANGED pureVars


(* ---------------------------------------------------------------------- *)
(* File system operations                                                  *)
(* ---------------------------------------------------------------------- *)
Put(fs, path, f) == [x \in DOMAIN fs \cup {path} |-> IF x = path THEN f ELSE fs[x]]
Del(fs, path) == [x \in DOMAIN fs \ {path} |-> fs[x]]

\* std::fs::File::create: a new empty file, or the existing one truncated
create(fs, path, p) == Put(fs, path, File(0, p, FALSE, None))

\* Write::write_all through the handle of p: n more bytes in the file
write_all(fs, path, p, n) ==
  IF path \in DOMAIN fs
    THEN Put(fs, path, [fs[path] EXCEPT !.size = @ + n,
                                        !.by = IF @ = p THEN p ELSE -1])
    ELSE fs

\* the stream of p has ended: the file holds all of it, and the length the
\* response had advertised for it is on record
end_of_stream(fs, path, p, adv) ==
  IF path \in DOMAIN fs /\ fs[path].by = p
    THEN Put(fs, path, [fs[path] EXCEPT !.eof = TRUE, !.adv = adv])
    ELSE fs

\* std::fs::rename that leaves an existing destination alone
rename_noreplace(fs, from, to) ==
  IF to \in DOMAIN fs THEN Del(fs, from) ELSE Put(Del(fs, from), to, fs[from])

\* std::fs::rename: the destination is replaced in one step
rename(fs, from, to) == Put(Del(fs, from), to, fs[from])

(* ---------------------------------------------------------------------- *)
(* download_model (model.rs:49-126) and PartFileGuard (model.rs:128-146)   *)
(* ---------------------------------------------------------------------- *)
\* model.rs:61 without the check (as in the older crate)
too_large_never(total) == FALSE

\* model.rs:61  total_size > MAX_MODEL_BYTES
too_large(total) == total > MAX_MODEL_KB

\* model.rs:93 without the ceiling
exceeded_never(n) == FALSE

\* model.rs:93  downloaded > MAX_MODEL_BYTES
exceeded(n) == n > MAX_MODEL_KB

\* model.rs:107-117: the checks between the end of the stream and the rename
verify(file_size, total) ==
  IF file_size < MIN_MODEL_KB THEN "too_small"
  ELSE IF total > 0 /\ file_size # total THEN "mismatch"
  ELSE "ok"

\* model.rs:140-146 with a guard that never removes
guard_drop_keep(fs, g, path) == fs

\* model.rs:140-146  Drop for PartFileGuard
guard_drop(fs, g, path) ==
  IF g = "armed" /\ path \in DOMAIN fs THEN Del(fs, path) ELSE fs


\* model.rs:50-58: the request, the response, its advertised length
DmSend(p) ==
  /\ pc[p] = "dm_send"
  /\ requests' = [requests EXCEPT ![p] = @ + 1]
  /\ \/ /\ EmReturnErr(p, Error("Http", "", NoPath))
        /\ UNCHANGED dlVars
     \/ /\ EmReturnErr(p, Error("ModelDownload", "HTTP error", NoPath))
        /\ UNCHANGED dlVars
     \/ /\ \E cl \in Advertised :
             /\ response' = [response EXCEPT ![p] = cl]
             /\ total_size' = [total_size EXCEPT ![p] = unwrap_or(cl, 0)]
        /\ Goto(p, "dm_check")
        /\ UNCHANGED <<downloaded, chunks, guard, result, err, model_path>>
  /\ UNCHANGED <<argVars, fsVars, audio, title, transcript, spawned, lastRename>>
  /\ UNCHANGED pureVars

\* model.rs:60-84: the ceiling on the advertised length, then the guard
DmCheck(p) ==
  /\ pc[p] = "dm_check"
  /\ IF too_large(total_size[p])
       THEN /\ ClearLocals(p)
            /\ EmReturnErr(p, Error("ModelDownload", "too large", NoPath))
       ELSE /\ guard' = [guard EXCEPT ![p] = "armed"]
            /\ Goto(p, "dm_create")
            /\ UNCHANGED <<streamVars, result, err, model_path>>
  /\ UNCHANGED <<argVars, fsVars, audio, title, transcript, requests, spawned,
                 lastRename>>
  /\ UNCHANGED pureVars

\* model.rs:85  File::create(&tmp_path)?
DmCreate(p) ==
  /\ pc[p] = "dm_create"
  /\ \/ /\ files' = create(files, tmp(p), p)
        /\ Goto(p, "dm_stream")
        /\ UNCHANGED <<err, streamVars>>
     \/ /\ Fail(p, Error("Io", "", NoPath))
        /\ UNCHANGED files
  /\ UNCHANGED <<argVars, dirs, guard, audio, title, model_path, result,
                 transcript, requests, spawned, lastRename>>
  /\ UNCHANGED pureVars

\* model.rs:90-100: one turn of the loop, or its end
DmChunk(p) ==
  /\ pc[p] = "dm_stream"
  /\ \/ \E c \in Chunks :
          /\ chunks[p] < MaxChunks
          /\ IF exceeded(downloaded[p] + c)
               THEN /\ Fail(p, Error("ModelDownload", "exceeded", NoPath))
                    /\ UNCHANGED files
               ELSE \/ /\ files' = write_all(files, tmp(p), p, c)
                       /\ chunks' = [chunks EXCEPT ![p] = @ + 1]
                       /\ downloaded' = [downloaded EXCEPT ![p] = @ + c]
                       /\ UNCHANGED <<pc, err, response, total_size>>
                    \/ /\ Fail(p, Error("Io", "", NoPath))
                       /\ UNCHANGED files
     \/ /\ Fail(p, Error("Http", "", NoPath))
        /\ UNCHANGED files
     \/ /\ files' = end_of_stream(files, tmp(p), p, response[p])
        /\ Goto(p, "dm_verify")
        /\ UNCHANGED <<err, streamVars>>
  /\ UNCHANGED <<argVars, dirs, guard, audio, title, model_path, result,
                 transcript, requests, spawned, lastRename>>
  /\ UNCHANGED pureVars

\* model.rs:102-117: flush, metadata and the two size checks
DmVerify(p) ==
  /\ pc[p] = "dm_verify"
  /\ \/ Fail(p, Error("Io", "", NoPath))
     \/ /\ exists(tmp(p))
        /\ LET v == verify(files[tmp(p)].size, total_size[p]) IN
             IF v = "ok"
               THEN Goto(p, "dm_rename") /\ UNCHANGED <<err, streamVars>>
               ELSE Fail(p, Error("ModelDownload", v, NoPath))
  /\ UNCHANGED <<argVars, fsVars, guard, audio, title, model_path, result,
                 transcript, requests, spawned, lastRename>>
  /\ UNCHANGED pureVars

\* model.rs:120-121  std::fs::rename(&tmp_path, dest)?  and, when it
\* succeeded, _part_guard.disarm()
DmRename(p) ==
  /\ pc[p] = "dm_rename"
  /\ \/ /\ exists(tmp(p))
        /\ files' = rename(files, tmp(p), dest(p))
        /\ lastRename' = p
        /\ guard' = [guard EXCEPT ![p] = "disarmed"]
        /\ Goto(p, "dm_ret")
        /\ UNCHANGED <<err, streamVars>>
     \/ /\ Fail(p, Error("Io", "", NoPath))
        /\ UNCHANGED <<files, lastRename, guard>>
  /\ UNCHANGED <<argVars, dirs, audio, title, model_path, result,
                 transcript, requests, spawned>>
  /\ UNCHANGED pureVars

\* model.rs:125-126 and model.rs:42-44: Ok(()), the guard's drop, Ok(model_path)
DmReturn(p) ==
  /\ pc[p] = "dm_ret"
  /\ files' = guard_drop(files, guard[p], tmp(p))
  /\ ClearLocals(p)
  /\ EmReturnOk(p, dest(p))
  /\ UNCHANGED <<argVars, dirs, audio, title, transcript, requests, spawned,
                 lastRename>>
  /\ UNCHANGED pureVars

\* an error return of download_model: the guard's drop, then the error
\* reaches ensure_model's caller (model.rs:42 `?`)
DmDrop(p) ==
  /\ pc[p] = "dm_drop"
  /\ files' = guard_drop(files, guard[p], tmp(p))
  /\ ClearLocals(p)
  /\ EmReturnErr(p, err[p])
  /\ UNCHANGED <<argVars, dirs, audio, title, transcript, requests, spawned,
                 lastRename>>
  /\ UNCHANGED pureVars


(* ---------------------------------------------------------------------- *)
(* Strings as sequences of characters; URLs                                *)
(* ---------------------------------------------------------------------- *)
Whitespace == {" ", "\t", "\n"}

RECURSIVE trim_start(_)
trim_start(s) ==
  IF s # <<>> /\ Head(s) \in Whitespace THEN trim_start(Tail(s)) ELSE s

RECURSIVE trim_end(_)
trim_end(s) ==
  IF s # <<>> /\ s[Len(s)] \in Whitespace
    THEN trim_end(SubSeq(s, 1, Len(s) - 1))
    ELSE s

\* str::trim
trim(s) == trim_end(trim_start(s))

\* str::starts_with
starts_with(s, prefix) ==
  Len(s) >= Len(prefix) /\ SubSeq(s, 1, Len(prefix)) = prefix

HttpsScheme == <<"h", "t", "t", "p", "s", ":", "/", "/">>
HttpScheme == <<"h", "t", "t", "p", ":", "/", "/">>

\* download.rs:23-32 accepting every input
validate_url_any(u) == TRUE

\* download.rs:23-32  validate_url: Ok(()) or Err(Error::Download)
validate_url(u) ==
  starts_with(trim(u), HttpsScheme) \/ starts_with(trim(u), HttpScheme)

Urls ==
  { HttpsScheme \o <<"y", ".", "c", "o", "/", "v">>,
    HttpScheme \o <<"e", ".", "c", "o", "/", "a">>,
    <<"y", ".", "c", "o", "/", "v">>,
    <<"f", "i", "l", "e", ":", "/", "/", "/", "e", "t", "c">>,
    <<"f", "t", "p", ":", "/", "/", "h">>,
    <<>>,
    <<"$", "(", "w", "h", "o", "a", "m", "i", ")">>,
    <<"|", " ", "c", "a", "t">>,
    <<"H", "T", "T", "P", ":", "/", "/", "h">>,
    <<"h", "t", "t", "p", ":", "/", "h">>,
    <<" ", "\t">>,
    <<" ">> \o HttpsScheme \o <<"h">>,
    <<"\n">> \o HttpScheme \o <<"h">> }

NoUrl == <<>>
\* Option<String> for the title and for source_url
NoneStr == [some |-> FALSE, v |-> ""]
SomeStr(t) == [some |-> TRUE, v |-> t]
NoneUrl == [some |-> FALSE, v |-> <<>>]
\* lib.rs:103 leaving the source URL unset
UrlDropped(u) == NoneUrl
SomeUrl(u) == [some |-> TRUE, v |-> u]
NoTranscript == [made |-> FALSE, source_url |-> NoneUrl, source_title |-> NoneStr]

(* ---------------------------------------------------------------------- *)
(* Directories                                                             *)
(* ---------------------------------------------------------------------- *)
is_prefix(d, e) == Len(d) <= Len(e) /\ SubSeq(e, 1, Len(d)) = d

\* lib.rs:80-87: temp_dir().join("transcriber-<pid>-<nanos>"); the clock
\* reading of invocation p is p
tmp_dir(p) ==
  TempRoot \o <<"transcriber-" \o ToString(pid(p)) \o "-" \o ToString(p)>>

\* std::fs::remove_dir_all on the directories / on the files
remove_dir_all_dirs(ds, d) == {e \in ds : ~is_prefix(d, e)}
remove_dir_all_files(fs, d) ==
  [x \in {y \in DOMAIN fs : ~is_prefix(d, y.dir)} |-> fs[x]]

\* download.rs:138-151  normalize_path, on the directory components
RECURSIVE normalize_from(_, _)
normalize_from(parts, rest) ==
  IF rest = <<>> THEN parts
  ELSE IF Head(rest) = ".."
    THEN normalize_from(IF parts = <<>> THEN parts
                        ELSE SubSeq(parts, 1, Len(parts) - 1), Tail(rest))
  ELSE IF Head(rest) = "." THEN normalize_from(parts, Tail(rest))
  ELSE normalize_from(Append(parts, Head(rest)), Tail(rest))

normalize_path(path) == Path(normalize_from(<<>>, path.dir), path.name)

\* the operating system's resolution of a path: `..` never leaves the root
RECURSIVE resolve_from(_, _)
resolve_from(parts, rest) ==
  IF rest = <<>> THEN parts
  ELSE IF Head(rest) = ".."
    THEN resolve_from(IF Len(parts) <= 1 THEN parts
                      ELSE SubSeq(parts, 1, Len(parts) - 1), Tail(rest))
  ELSE IF Head(rest) = "." THEN resolve_from(parts, Tail(rest))
  ELSE resolve_from(Append(parts, Head(rest)), Tail(rest))

resolve(path) == Path(resolve_from(<<>>, path.dir), path.name)

\* the file name of a path as one component
RECURSIVE file_name(_)
file_name(name) ==
  IF name = <<>> THEN ""
  ELSE IF Len(name) = 1 THEN name[1]
  ELSE name[1] \o "." \o file_name(Tail(name))

\* Path::components
components(path) == path.dir \o <<file_name(path.name)>>

\* Path::exists for a path that may hold `..`: a file or a directory is there
path_exists(fs, ds, path) ==
  resolve(path) \in DOMAIN fs \/ components(resolve(path)) \in ds

\* Path::canonicalize(..).unwrap_or_else(|_| normalize_path(..)), for a file
\* and for a directory
canonical_file(fs, ds, path) ==
  IF path_exists(fs, ds, path) THEN resolve(path) ELSE normalize_path(path)
canonical_dir(ds, d) ==
  IF resolve_from(<<>>, d) \in ds THEN resolve_from(<<>>, d)
  ELSE normalize_from(<<>>, d)

\* download.rs:154-175 accepting every path
validate_path_in_dir_any(fs, ds, path, expected_dir) == TRUE

\* download.rs:154-175  validate_path_in_dir: Path::starts_with, component
\* by component
validate_path_in_dir(fs, ds, path, expected_dir) ==
  is_prefix(canonical_dir(ds, expected_dir),
            components(canonical_file(fs, ds, path)))


(* ---------------------------------------------------------------------- *)
(* download_audio (download.rs:42-135)                                     *)
(* ---------------------------------------------------------------------- *)
Downloaded(p) == Path(tmp_dir(p), <<"vid", "wav">>)

\* what yt-dlp may print as the final path: nothing, the file it wrote, a
\* file of the directory that is not there, the same file by a detour over
\* the root, the directory itself, and paths outside the directory: absolute
\* ones (present and not) and ones that leave it through `..`
Reported(p) ==
  { NoPath,
    Downloaded(p),
    Path(tmp_dir(p), <<"other", "wav">>),
    Path(tmp_dir(p) \o <<"..", "..", "..">> \o Tail(tmp_dir(p)), <<"vid", "wav">>),
    Path(SubSeq(tmp_dir(p), 1, Len(tmp_dir(p)) - 1), <<tmp_dir(p)[Len(tmp_dir(p))]>>),
    EtcPasswd,
    Path(<<"/", "etc">>, <<"nothing", "wav">>),
    Path(tmp_dir(p) \o <<"..", "..", "etc">>, <<"passwd">>),
    Path(tmp_dir(p) \o <<"..", "elsewhere">>, <<"vid", "wav">>) }

AudioExts == {"wav", "mp3", "ogg", "m4a", "opus", "flac"}

\* download.rs:43  validate_url(url)?
DaValidate(p) ==
  /\ pc[p] = "da_validate"
  /\ IF validate_url(url[p])
       THEN Goto(p, "da_check") /\ UNCHANGED <<result, err>>
       ELSE Raise(p, Error("Download", "invalid URL", NoPath))
  /\ UNCHANGED <<argVars, fsVars, dlVars, audio, title, model_path, transcript,
                 requests, spawned, lastRename>>
  /\ Called(p, <<"download_audio">>)

\* download.rs:48-55: `yt-dlp --version`
DaCheck(p) ==
  /\ pc[p] = "da_check"
  /\ spawned' = [spawned EXCEPT ![p] = @ + 1]
  /\ \/ Goto(p, "da_mkdir") /\ UNCHANGED <<result, err>>
     \/ Raise(p, Error("YtDlpNotFound", "", NoPath))
  /\ UNCHANGED <<argVars, fsVars, dlVars, audio, title, model_path, transcript,
                 requests, lastRename>>
  /\ UNCHANGED pureVars

\* download.rs:57-65: create_dir_all(output_dir)?, the output template
DaMkdir(p) ==
  /\ pc[p] = "da_mkdir"
  /\ \/ /\ dirs' = dirs \cup {tmp_dir(p)}
        /\ Goto(p, "da_info")
        /\ UNCHANGED <<result, err>>
     \/ /\ dirs' = dirs \cup {tmp_dir(p)}
        /\ Raise(p, Error("Download", "invalid UTF-8", NoPath))
     \/ /\ Raise(p, Error("Io", "", NoPath))
        /\ UNCHANGED dirs
  /\ UNCHANGED <<argVars, files, dlVars, audio, title, model_path, transcript,
                 requests, spawned, lastRename>>
  /\ UNCHANGED pureVars

\* download.rs:68-78: `yt-dlp --dump-json`, the optional metadata
DaInfo(p) ==
  /\ pc[p] = "da_info"
  /\ spawned' = [spawned EXCEPT ![p] = @ + 1]
  /\ \/ /\ \E t \in {NoneStr, SomeStr("A talk")} :
             title' = [title EXCEPT ![p] = t]
        /\ Goto(p, "da_download")
        /\ UNCHANGED <<result, err>>
     \/ /\ Raise(p, Error("Io", "", NoPath))
        /\ UNCHANGED title
  /\ UNCHANGED <<argVars, fsVars, dlVars, audio, model_path, transcript,
                 requests, lastRename>>
  /\ UNCHANGED pureVars

\* download.rs:81-108: the download run of yt-dlp and what it printed
DaDownload(p) ==
  /\ pc[p] = "da_download"
  /\ spawned' = [spawned EXCEPT ![p] = @ + 1]
  /\ \/ /\ Raise(p, Error("Io", "", NoPath))
        /\ UNCHANGED <<files, audio>>
     \/ /\ files' \in {files, Put(files, Path(tmp_dir(p), <<"vid", "part">>), OtherFile)}
        /\ Raise(p, Error("Download", "yt-dlp failed", NoPath))
        /\ UNCHANGED audio
     \/ /\ files' \in {files, Put(files, Downloaded(p), OtherFile)}
        /\ \E r \in Reported(p) : audio' = [audio EXCEPT ![p] = r]
        /\ Goto(p, "da_path")
        /\ UNCHANGED <<result, err>>
  /\ UNCHANGED <<argVars, dirs, dlVars, title, model_path, transcript,
                 requests, lastRename>>
  /\ UNCHANGED pureVars

\* download.rs:178-199  find_audio_file: the audio files of the directory
find_audio_file(fs, d) ==
  {x \in DOMAIN fs : x.dir = d /\ x.name[Len(x.name)] \in AudioExts}

\* download.rs:111-135: the path checks and Ok(DownloadResult)
DaPath(p) ==
  /\ pc[p] = "da_path"
  /\ IF audio[p] = NoPath
       THEN IF find_audio_file(files, tmp_dir(p)) = {}
              THEN /\ Raise(p, Error("Download", "no audio file found", NoPath))
                   /\ UNCHANGED audio
              ELSE /\ \E x \in find_audio_file(files, tmp_dir(p)) :
                        audio' = [audio EXCEPT ![p] = x]
                   /\ Goto(p, "em_match")
                   /\ UNCHANGED <<result, err>>
       ELSE IF ~validate_path_in_dir(files, dirs, audio[p], tmp_dir(p))
              THEN /\ Raise(p, Error("Download", "outside", NoPath))
                   /\ UNCHANGED audio
       ELSE IF ~path_exists(files, dirs, audio[p])
              THEN /\ Raise(p, Error("Download", "downloaded file not found", NoPath))
                   /\ UNCHANGED audio
       ELSE /\ Goto(p, "em_match")
            /\ UNCHANGED <<result, err, audio>>
  /\ UNCHANGED <<argVars, fsVars, dlVars, title, model_path, transcript,
                 requests, spawned, lastRename>>
  /\ UNCHANGED pureVars

(* ---------------------------------------------------------------------- *)
(* load_audio and transcribe_samples, as stages of the facade              *)
(* ---------------------------------------------------------------------- *)
\* audio.rs:30-76  load_audio
LoadAudio(p) ==
  /\ pc[p] = "load_audio"
  /\ IF ~path_exists(files, dirs, audio[p])
       THEN /\ Raise(p, Error("AudioNotFound", "", audio[p]))
            /\ UNCHANGED spawned
       ELSE /\ spawned' = [spawned EXCEPT ![p] = @ + 1]
            /\ \/ Goto(p, "transcribe") /\ UNCHANGED <<result, err>>
               \/ \E m \in {"ffmpeg not found", "ffmpeg failed",
                            "ffmpeg produced no output", "audio too long"} :
                    Raise(p, Error("AudioDecode", m, NoPath))
  /\ UNCHANGED <<argVars, fsVars, dlVars, audio, title, model_path, transcript,
                 requests, lastRename>>
  /\ Called(p, <<"load_audio">>)

\* transcribe.rs:12-155  transcribe_samples; lib.rs:61-63 / lib.rs:100
TranscribeSamples(p) ==
  /\ pc[p] = "transcribe"
  /\ \/ /\ transcript' = [transcript EXCEPT ![p] =
                            [made |-> TRUE, source_url |-> NoneUrl,
                             source_title |-> NoneStr]]
        /\ IF entry[p] = "transcribe_url"
             THEN Goto(p, "tw_attach") /\ UNCHANGED <<result, err>>
             ELSE Finish(p, Ok(NoPath))
        /\ Called(p, <<"transcribe_samples", "WhisperContext", "full">>)
     \/ /\ Raise(p, Error("Model", "model path contains invalid UTF-8", NoPath))
        /\ Called(p, <<"transcribe_samples">>)
        /\ UNCHANGED transcript
     \/ /\ Raise(p, Error("Whisper", "init", NoPath))
        /\ Called(p, <<"transcribe_samples", "WhisperContext">>)
        /\ UNCHANGED transcript
     \/ /\ \E e \in {Error("Whisper", "full", NoPath),
                     Error("Transcription", "segment not found", NoPath)} :
             Raise(p, e)
        /\ Called(p, <<"transcribe_samples", "WhisperContext", "full">>)
        /\ UNCHANGED transcript
  /\ UNCHANGED <<argVars, fsVars, dlVars, audio, title, model_path, requests,
                 spawned, lastRename>>

(* ---------------------------------------------------------------------- *)
(* transcribe_with_options and TempDirGuard (lib.rs:74-122)                *)
(* ---------------------------------------------------------------------- *)
\* lib.rs:103-104: attach the source metadata
TwAttach(p) ==
  /\ pc[p] = "tw_attach"
  /\ transcript' = [transcript EXCEPT ![p].source_url = SomeUrl(url[p]),
                                      ![p].source_title = title[p]]
  /\ Goto(p, "tw_drop")
  /\ UNCHANGED <<argVars, fsVars, dlVars, audio, title, model_path, err,
                 result, requests, spawned, lastRename>>
  /\ UNCHANGED pureVars

\* lib.rs:114-121 with a guard that removes nothing
temp_dir_drop_keep(S, d) == S

\* lib.rs:114-121  Drop for TempDirGuard, on the set of directories
temp_dir_drop(ds, d) == IF d \in ds THEN remove_dir_all_dirs(ds, d) ELSE ds

\* lib.rs:114-121  Drop for TempDirGuard, on the files
temp_dir_drop_files(fs, ds, d) ==
  IF d \in ds THEN remove_dir_all_files(fs, d) ELSE fs

\* lib.rs:106-107 and every `?` of transcribe_with_options: the guard's drop,
\* then the result reaches the caller
TwDrop(p) ==
  /\ pc[p] = "tw_drop"
  /\ dirs' = temp_dir_drop(dirs, tmp_dir(p))
  /\ files' = temp_dir_drop_files(files, dirs, tmp_dir(p))
  /\ Finish(p, IF err[p] = NoErr THEN Ok(NoPath) ELSE Err(err[p]))
  /\ UNCHANGED <<argVars, dlVars, audio, title, model_path, transcript,
                 requests, spawned, lastRename>>
  /\ UNCHANGED pureVars

(* ---------------------------------------------------------------------- *)
(* load_audio step by step (audio.rs:30-241).  A sample is an integer in   *)
(* units of 1/32768, which is exact for what the decoder yields            *)
(* (audio.rs:128); f32 arithmetic is integer arithmetic rounded toward     *)
(* zero.  The sample rate is scaled from 16000 to 200 samples per second,  *)
(* so that a 10 ms window is 2 samples and buffers of a few samples hold   *)
(* several windows.                                                        *)
(* ---------------------------------------------------------------------- *)
\* audio.rs:10  WHISPER_SAMPLE_RATE, scaled by 1/80
WHISPER_SAMPLE_RATE == 200
\* audio.rs:15  MAX_AUDIO_DURATION_SECS = 8.0 * 3600.0
MAX_AUDIO_DURATION_SECS == 28800
\* audio.rs:128  the divisor 32768.0: the sample value 1.0
ONE == 32768

\* config.rs:174-187  AudioProcessing
AudioProcessing(dc, norm, tr, db, pad) ==
  [dc_offset_removal |-> dc, normalize |-> norm, trim_silence |-> tr,
   silence_threshold_db |-> db, silence_pad_ms |-> pad]

\* config.rs:189-199  AudioProcessing::default()
DefaultProcessing == AudioProcessing(FALSE, FALSE, FALSE, -40, 50)

\* the AudioProcessing values a caller passes: every combination of the
\* switches, and with trimming on two thresholds and two paddings
Processings ==
  {AudioProcessing(dc, norm, FALSE, -40, 50) : dc \in BOOLEAN, norm \in BOOLEAN}
  \cup {AudioProcessing(dc, norm, TRUE, db, pad) :
          dc \in BOOLEAN, norm \in BOOLEAN, db \in {-40, -20}, pad \in {0, 5}}

\* std::process::Output of the decoder run, or why there is none
NotRun == [kind |-> "none", stdout |-> <<>>]
FfmpegFailures ==
  {[kind |-> k, stdout |-> <<>>] : k \in {"not_found", "spawn_failed", "exit_nonzero"}}
Exited(bytes) == [kind |-> "success", stdout |-> bytes]

\* what the decoder may write for one sample: 0, 256, 16384, -32768, 32767
PcmValues == {0, 256, 16384, -32768, 32767}

\* i16::to_le_bytes, of the decoder's side
to_le_bytes(v) == LET u == IF v < 0 THEN v + 65536 ELSE v IN <<u % 256, u \div 256>>

RECURSIVE encode(_)
encode(vs) == IF vs = <<>> THEN <<>> ELSE to_le_bytes(Head(vs)) \o encode(Tail(vs))

\* the decoder's standard output: up to MaxSamples whole samples, and
\* possibly one byte more
Stdouts ==
  {encode(vs) \o t :
     vs \in UNION {[1..k -> PcmValues] : k \in 0..MaxSamples}, t \in {<<>>, <<7>>}}

\* audio.rs:127  i16::from_le_bytes([chunk[0], chunk[1]])
from_le_bytes(lo, hi) ==
  LET u == lo + 256 * hi IN IF u >= 32768 THEN u - 65536 ELSE u

\* audio.rs:123-130  chunks_exact(2), each chunk as i16, as f32 / 32768.0
decode(stdout) ==
  [i \in 1..(Len(stdout) \div 2) |-> from_le_bytes(stdout[2 * i - 1], stdout[2 * i])]

abs(x) == IF x < 0 THEN -x ELSE x

\* f32 division, rounded toward zero
div(a, b) == IF a < 0 THEN -((-a) \div b) ELSE a \div b

RECURSIVE sum(_)
sum(xs) == IF xs = <<>> THEN 0 ELSE Head(xs) + sum(Tail(xs))

\* audio.rs:136-148  remove_dc_offset; MIN_RMS = 1e-6 is less than one unit,
\* so `mean.abs() > MIN_RMS` is `mean # 0`
remove_dc_offset(xs) ==
  IF xs = <<>> THEN xs
  ELSE LET mean == div(sum(xs), Len(xs)) IN
         IF abs(mean) > 0 THEN [i \in 1..Len(xs) |-> xs[i] - mean] ELSE xs

RECURSIVE fold_max(_)
fold_max(xs) ==
  IF xs = <<>> THEN 0
  ELSE LET m == fold_max(Tail(xs)) IN IF abs(Head(xs)) > m THEN abs(Head(xs)) ELSE m

\* `s * (1.0 / peak)` for |s| <= peak
scaled(x, peak) ==
  IF abs(x) = peak THEN (IF x < 0 THEN -ONE ELSE ONE)
  ELSE div(x * ONE, peak)

\* audio.rs:151-174  normalize_peak; `peak < MIN_RMS` is `peak = 0`, and
\* `(peak - 1.0).abs() > 0.01` is more than 327 units
normalize_peak(xs) ==
  IF xs = <<>> THEN xs
  ELSE LET peak == fold_max(xs) IN
         IF peak = 0 THEN xs
         ELSE IF abs(peak - ONE) > 327
           THEN [i \in 1..Len(xs) |-> scaled(xs[i], peak)]
           ELSE xs

\* the square of a sample, in units of 2^-24
sq(x) == (abs(x) \div 8) * (abs(x) \div 8)

RECURSIVE sum_sq(_)
sum_sq(xs) == IF xs = <<>> THEN 0 ELSE sq(Head(xs)) + sum_sq(Tail(xs))

\* audio.rs:231-237  rms, squared: the mean of the squares, in units of 2^-24
rms(xs) == IF xs = <<>> THEN 0 ELSE sum_sq(xs) \div Len(xs)

\* audio.rs:239-241  db_to_linear, squared: 10^(db/10), in units of 2^-24
db_to_linear(db) ==
  CASE db = -40 -> 1677
    [] db = -20 -> 167772
    [] db = 0 -> 16777216

\* the slice samples[i..i + n], with i counted from 0
slice(xs, i, j) == SubSeq(xs, i + 1, j)

\* usize::saturating_sub
saturating_sub(a, b) == IF a > b THEN a - b ELSE 0

min(a, b) == IF a < b THEN a ELSE b
max(a, b) == IF a > b THEN a ELSE b

\* the start positions of samples.windows(window_size)
windows(xs, window_size) == 0..(Len(xs) - window_size)

\* audio.rs:212-219 over the windows that start at a multiple of the window
\* length (samples.chunks in place of samples.windows)
find_first_active_chunks(xs, window_size, threshold) ==
  LET active == {i \in windows(xs, window_size) :
                   /\ i % window_size = 0
                   /\ rms(slice(xs, i, i + window_size)) > threshold}
  IN IF active = {} THEN None
     ELSE Some(CHOOSE i \in active : \A j \in active : i <= j)

\* audio.rs:212-219  find_first_active
find_first_active(xs, window_size, threshold) ==
  LET active == {i \in windows(xs, window_size) :
                   rms(slice(xs, i, i + window_size)) > threshold}
  IN IF active = {} THEN None
     ELSE Some(CHOOSE i \in active : \A j \in active : i <= j)

\* audio.rs:221-229 returning the start of the last active window
find_last_active_start(xs, window_size, threshold) ==
  LET total_windows == saturating_sub(Len(xs), window_size - 1)
      active == {i \in 0..(total_windows - 1) :
                   rms(slice(xs, i, i + window_size)) > threshold}
  IN IF active = {} THEN None
     ELSE Some(CHOOSE i \in active : \A j \in active : i >= j)

\* audio.rs:221-229  find_last_active
find_last_active(xs, window_size, threshold) ==
  LET total_windows == saturating_sub(Len(xs), window_size - 1)
      active == {i \in 0..(total_windows - 1) :
                   rms(slice(xs, i, i + window_size)) > threshold}
  IN IF active = {} THEN None
     ELSE Some((CHOOSE i \in active : \A j \in active : i >= j) + window_size)

\* audio.rs:177-210  trim_silence
trim_silence(xs, threshold_db, pad_ms) ==
  IF xs = <<>> THEN <<>>
  ELSE
    LET threshold == db_to_linear(threshold_db)
        window_size == max(WHISPER_SAMPLE_RATE \div 100, 1)
        start == unwrap_or(find_first_active(xs, window_size, threshold), 0)
        end == unwrap_or(find_last_active(xs, window_size, threshold), Len(xs))
    IN IF start >= end THEN xs
       ELSE
         LET pad_samples == (WHISPER_SAMPLE_RATE * pad_ms) \div 1000
             start2 == saturating_sub(start, pad_samples)
             end2 == min(end + pad_samples, Len(xs))
         IN IF start2 = 0 /\ end2 = Len(xs) THEN xs
            ELSE slice(xs, start2, end2)

\* what no step of load_audio changes
laFrame == <<requested, model, url, process_id, fsVars, dlVars, title,
             model_path, transcript, requests, lastRename, fmtVars, tsVars,
             stages>>

\* a caller of audio::load_audio (audio.rs:30)
StartLoad(p) ==
  /\ pc[p] = "idle"
  /\ entry' = [entry EXCEPT ![p] = "load_audio"]
  /\ \E a \in {AudioPresent, AudioMissing} : audio' = [audio EXCEPT ![p] = a]
  /\ processing' \in Processings
  /\ Goto(p, "la_exists")
  /\ UNCHANGED <<laFrame, err, result, spawned, ffmpeg, samples, ran>>

\* audio.rs:33-37  if !path.exists() { return Err(Error::AudioNotFound) }
LaExists(p) ==
  /\ pc[p] = "la_exists"
  /\ IF ~path_exists(files, dirs, audio[p])
       THEN Raise(p, Error("AudioNotFound", "", audio[p]))
       ELSE Goto(p, "la_decode") /\ UNCHANGED <<result, err>>
  /\ UNCHANGED <<laFrame, entry, audio, spawned, audioVars>>

\* audio.rs:83-120 accepting an empty output
decode_error_lenient(out) ==
  CASE out.kind = "not_found" -> "ffmpeg not found"
    [] out.kind = "spawn_failed" -> "failed to run ffmpeg"
    [] out.kind = "exit_nonzero" -> "ffmpeg failed"
    [] OTHER -> ""

\* audio.rs:83-120: the message of the error decode_with_ffmpeg returns for
\* a decoder run, "" when it returns none
decode_error(out) ==
  CASE out.kind = "not_found" -> "ffmpeg not found"
    [] out.kind = "spawn_failed" -> "failed to run ffmpeg"
    [] out.kind = "exit_nonzero" -> "ffmpeg failed"
    [] out.kind = "success" /\ out.stdout = <<>> -> "ffmpeg produced no output"
    [] OTHER -> ""

\* audio.rs:48  duration_raw > MAX_AUDIO_DURATION_SECS
too_long(n) == n > MAX_AUDIO_DURATION_SECS * WHISPER_SAMPLE_RATE

\* audio.rs:39-53: decode_with_ffmpeg(path)?, then the limit on the duration
LaDecode(p) ==
  /\ pc[p] = "la_decode"
  /\ spawned' = [spawned EXCEPT ![p] = @ + 1]
  /\ \E out \in FfmpegFailures \cup {Exited(b) : b \in Stdouts} :
       /\ ffmpeg' = out
       /\ IF decode_error(out) # ""
            THEN /\ Raise(p, Error("AudioDecode", decode_error(out), NoPath))
                 /\ UNCHANGED samples
            ELSE IF too_long(Len(decode(out.stdout)))
              THEN /\ Raise(p, Error("AudioDecode", "audio too long", NoPath))
                   /\ UNCHANGED samples
              ELSE /\ samples' = decode(out.stdout)
                   /\ Goto(p, "la_dc")
                   /\ UNCHANGED <<result, err>>
  /\ UNCHANGED <<laFrame, entry, audio, processing, ran>>

\* audio.rs:56-58 without the test of the flag
LaDc_unconditional(p) ==
  /\ pc[p] = "la_dc"
  /\ samples' = remove_dc_offset(samples)
  /\ ran' = Append(ran, "remove_dc_offset")
  /\ Goto(p, "la_norm")
  /\ UNCHANGED <<laFrame, entry, audio, spawned, err, result, processing, ffmpeg>>

\* audio.rs:56-58  if processing.dc_offset_removal { remove_dc_offset(..) }
LaDc(p) ==
  /\ pc[p] = "la_dc"
  /\ IF processing.dc_offset_removal
       THEN /\ samples' = remove_dc_offset(samples)
            /\ ran' = Append(ran, "remove_dc_offset")
       ELSE UNCHANGED <<samples, ran>>
  /\ Goto(p, "la_norm")
  /\ UNCHANGED <<laFrame, entry, audio, spawned, err, result, processing, ffmpeg>>

\* audio.rs:60-62  if processing.normalize { normalize_peak(..) }
LaNorm(p) ==
  /\ pc[p] = "la_norm"
  /\ IF processing.normalize
       THEN /\ samples' = normalize_peak(samples)
            /\ ran' = Append(ran, "normalize_peak")
       ELSE UNCHANGED <<samples, ran>>
  /\ Goto(p, "la_trim")
  /\ UNCHANGED <<laFrame, entry, audio, spawned, err, result, processing, ffmpeg>>

\* audio.rs:64-70  if processing.trim_silence { samples = trim_silence(..) }
LaTrim(p) ==
  /\ pc[p] = "la_trim"
  /\ IF processing.trim_silence
       THEN /\ samples' = trim_silence(samples, processing.silence_threshold_db,
                                       processing.silence_pad_ms)
            /\ ran' = Append(ran, "trim_silence")
       ELSE UNCHANGED <<samples, ran>>
  /\ Goto(p, "la_ret")
  /\ UNCHANGED <<laFrame, entry, audio, spawned, err, result, processing, ffmpeg>>

\* audio.rs:72-75  Ok(samples)
LaReturn(p) ==
  /\ pc[p] = "la_ret"
  /\ Finish(p, Ok(NoPath))
  /\ UNCHANGED <<laFrame, entry, audio, spawned, audioVars>>

(* ---------------------------------------------------------------------- *)
(* Transcript rendering (types.rs:34-104).  A String is the sequence of    *)
(* its characters.  A time in seconds is an integer count of half          *)
(* milliseconds, so that a time has a part below the millisecond; the      *)
(* rounding of the f64 product `seconds * 1000.0` is not modelled.         *)
(* ---------------------------------------------------------------------- *)
\* the result of a rendering method, once it has been called
NotRendered == [some |-> FALSE, v |-> <<>>]
Rendered(str) == [some |-> TRUE, v |-> str]

Digits == <<"0", "1", "2", "3", "4", "5", "6", "7", "8", "9">>

\* format!("{n}") of an unsigned integer
RECURSIVE decimal(_)
decimal(n) ==
  IF n < 10 THEN <<Digits[n + 1]>>
  ELSE decimal(n \div 10) \o <<Digits[(n % 10) + 1]>>

\* format!("{n:0w$}"): zeros in front up to the width w, never fewer digits
\* than the number has
RECURSIVE zero_padded(_, _)
zero_padded(str, w) == IF Len(str) >= w THEN str ELSE zero_padded(<<"0">> \o str, w)

\* types.rs:88 / types.rs:98 rounding to the nearest millisecond
total_ms_rounded(seconds) == IF seconds < 0 THEN 0 ELSE (seconds + 1) \div 2

\* types.rs:88 / types.rs:98  (seconds * 1000.0) as u64: the cast truncates,
\* and a negative value becomes 0
total_ms(seconds) == IF seconds < 0 THEN 0 ELSE seconds \div 2

\* types.rs:88-93 / types.rs:98-103 with the separator sep
format_time(seconds, sep) ==
  LET t == total_ms(seconds)
      h == t \div 3600000
      m == (t % 3600000) \div 60000
      sec == (t % 60000) \div 1000
      ms == t % 1000
  IN zero_padded(decimal(h), 2) \o <<":">> \o zero_padded(decimal(m), 2) \o <<":">>
       \o zero_padded(decimal(sec), 2) \o sep \o zero_padded(decimal(ms), 3)

\* types.rs:87-94  format_srt_time
format_srt_time(seconds) == format_time(seconds, <<",">>)

\* types.rs:97-104 rounding to the nearest millisecond
format_vtt_time_rounded(seconds) == format_time(seconds + 1, <<".">>)

\* types.rs:97-104  format_vtt_time
format_vtt_time(seconds) == format_time(seconds, <<".">>)

Arrow == <<" ", "-", "-", ">", " ">>
Newline == <<"\n">>

\* types.rs:47-56 numbering the blocks from 0
RECURSIVE srt_blocks_from0(_, _)
srt_blocks_from0(segs, i) ==
  IF segs = <<>> THEN <<>>
  ELSE decimal(i) \o Newline
         \o format_srt_time(Head(segs).start) \o Arrow
         \o format_srt_time(Head(segs).end) \o Newline
         \o trim(Head(segs).text) \o Newline \o Newline
         \o srt_blocks_from0(Tail(segs), i + 1)

\* types.rs:47-56: the loop of to_srt from the segment of index i (from 0) on
RECURSIVE srt_blocks(_, _)
srt_blocks(segs, i) ==
  IF segs = <<>> THEN <<>>
  ELSE decimal(i + 1) \o Newline
         \o format_srt_time(Head(segs).start) \o Arrow
         \o format_srt_time(Head(segs).end) \o Newline
         \o trim(Head(segs).text) \o Newline \o Newline
         \o srt_blocks(Tail(segs), i + 1)

\* types.rs:45-58  Transcript::to_srt
to_srt(t) == srt_blocks(t.segments, 0)

\* types.rs:63-71: the loop of to_vtt
RECURSIVE vtt_cues(_)
vtt_cues(segs) ==
  IF segs = <<>> THEN <<>>
  ELSE format_vtt_time(Head(segs).start) \o Arrow
         \o format_vtt_time(Head(segs).end) \o Newline
         \o trim(Head(segs).text) \o Newline \o Newline
         \o vtt_cues(Tail(segs))

VttHeader == <<"W", "E", "B", "V", "T", "T", "\n", "\n">>

\* types.rs:61-73  Transcript::to_vtt
to_vtt(t) == VttHeader \o vtt_cues(t.segments)

\* types.rs:14-21  Segment, the fields the renderings read
Segment(start, end, text) == [start |-> start, end |-> end, text |-> text]

\* start and end times in half milliseconds: 0 s and 2.5005 s, 3 s and
\* 5.5 s, 3661.9995 s and 7200 s, -0.0015 s and 0.0005 s
SegmentTimes ==
  {<<0, 5001>>, <<6000, 11000>>, <<7323999, 14400000>>, <<-3, 1>>}

\* segment texts: with a leading space as the engine gives them and a comma,
\* empty, with white space of every kind around, and bare
SegmentTexts ==
  { <<" ", "H", "i", ",", " ", "y", "o", "u", ".">>,
    <<>>,
    <<"\n", " ", "a", " ", "b", "\t">>,
    <<"x">> }

Segments == {Segment(t[1], t[2], x) : t \in SegmentTimes, x \in SegmentTexts}

\* types.rs:25-32  Transcript, the field the renderings read
Transcripts ==
  {[segments |-> ss] : ss \in UNION {[1..n -> Segments] : n \in 0..MaxSegments}}

\* what no rendering changes
fmtFrame == <<requested, files, dirs, pc, entry, model, url, audio, title,
              model_path, response, total_size, downloaded, chunks, guard, err,
              result, transcript, requests, spawned, lastRename, process_id,
              audioVars, tsVars, stages>>

\* a caller holds a Transcript (sample_transcript, types.rs:110-139)
NewTranscript ==
  /\ doc = [segments |-> <<>>] /\ ~srt.some /\ ~vtt.some
  /\ doc' \in Transcripts
  /\ UNCHANGED <<fmtFrame, srt, vtt, json>>

\* types.rs:45-58  a call of to_srt
ToSrt ==
  /\ ~srt.some
  /\ srt' = Rendered(to_srt(doc))
  /\ UNCHANGED <<fmtFrame, doc, vtt, json>>

\* types.rs:61-73  a call of to_vtt
ToVtt ==
  /\ ~vtt.some
  /\ vtt' = Rendered(to_vtt(doc))
  /\ UNCHANGED <<fmtFrame, doc, srt, json>>

(* ---------------------------------------------------------------------- *)
(* Language and TranscribeOptions (config.rs)                              *)
(* ---------------------------------------------------------------------- *)
\* config.rs:15-25  enum Language
Auto == [auto |-> TRUE, code |-> <<>>, id |-> -1]
Code(code, id) == [auto |-> FALSE, code |-> code, id |-> id]

\* whisper's language table, by id: the short code and the full name of the
\* first languages
LangTable ==
  << [code |-> <<"e", "n">>, name |-> <<"e", "n", "g", "l", "i", "s", "h">>],
     [code |-> <<"z", "h">>, name |-> <<"c", "h", "i", "n", "e", "s", "e">>],
     [code |-> <<"d", "e">>, name |-> <<"g", "e", "r", "m", "a", "n">>] >>

\* char::to_lowercase on the letters the strings below hold
lower_char(c) ==
  CASE c = "A" -> "a"
    [] c = "E" -> "e"
    [] c = "G" -> "g"
    [] c = "N" -> "n"
    [] OTHER -> c

\* str::to_lowercase
to_lowercase(str) == [i \in 1..Len(str) |-> lower_char(str[i])]

\* whisper_rs::get_lang_id: the id of a short code or of a full name
get_lang_id(str) ==
  IF \E i \in 1..Len(LangTable) : LangTable[i].code = str
    THEN Some((CHOOSE i \in 1..Len(LangTable) : LangTable[i].code = str) - 1)
  ELSE IF \E i \in 1..Len(LangTable) : LangTable[i].name = str
    THEN Some((CHOOSE i \in 1..Len(LangTable) : LangTable[i].name = str) - 1)
  ELSE None

\* whisper_rs::get_lang_str
get_lang_str(id) == LangTable[id + 1].code

\* config.rs:32-48 returning the first language for a string of no language
Language_new_coercing(str) ==
  LET lower == to_lowercase(str)
  IN IF lower = <<"a", "u", "t", "o">> THEN [ok |-> TRUE, v |-> Auto]
     ELSE LET id == unwrap_or(get_lang_id(lower), 0)
          IN [ok |-> TRUE, v |-> Code(get_lang_str(id), id)]

\* config.rs:32-48  Language::new; without ok the error is
\* UnsupportedLanguage(lang)
Language_new(str) ==
  LET lower == to_lowercase(str)
  IN IF lower = <<"a", "u", "t", "o">> THEN [ok |-> TRUE, v |-> Auto]
     ELSE LET id == get_lang_id(lower)
          IN IF id.some
               THEN [ok |-> TRUE, v |-> Code(get_lang_str(id.v), id.v)]
               ELSE [ok |-> FALSE, v |-> Auto]

\* the strings callers pass as a language
LangStrings ==
  { <<"e", "n">>, <<"E", "N">>, <<"d", "e">>,
    <<"g", "e", "r", "m", "a", "n">>, <<"G", "e", "r", "m", "a", "n">>,
    <<"a", "u", "t", "o">>, <<"A", "u", "t", "o">>,
    <<"k", "l", "i", "n", "g", "o", "n">>,
    <<"g", "i", "b", "b", "e", "r", "i", "s", "h">>,
    <<"e", "n", "g">>,
    <<>> }

\* no call of TranscribeOptions::language yet
NoLang == [some |-> FALSE, v |-> <<>>]
SomeLang(str) == [some |-> TRUE, v |-> str]

\* config.rs:259-277  TranscribeOptions::default(), the fields read here
DefaultOptions ==
  [language |-> Auto, word_timestamps |-> FALSE, n_threads |-> None,
   temperature |-> 0, beam_size |-> None]

\* the numbers callers pass: thread counts, beam sizes, and temperatures in
\* hundredths
ThreadCounts == {0, 4}
BeamSizes == {0, 5}
Temperatures == {0, 50, -100}

\* transcribe.rs:32-56  before the call: no FullParams
NoParams ==
  [set |-> FALSE, beam_search |-> FALSE, size |-> 0, n_threads |-> None,
   temperature |-> 0]

\* transcribe.rs:37  SamplingStrategy::Greedy { best_of: 5 }
GREEDY_BEST_OF == 5

\* transcribe.rs:32-56  the FullParams built from the options: beam search
\* with the beam size or greedy with best_of 5, the temperature, and the
\* thread count if one is set
full_params(opts) ==
  [set |-> TRUE,
   beam_search |-> opts.beam_size.some,
   size |-> IF opts.beam_size.some THEN opts.beam_size.v ELSE GREEDY_BEST_OF,
   n_threads |-> opts.n_threads,
   temperature |-> opts.temperature]

(* ---------------------------------------------------------------------- *)
(* transcribe_samples (transcribe.rs)                                      *)
(* ---------------------------------------------------------------------- *)
\* a model path that is no UTF-8 string
NonUtf8Model == Path(<<"/", "models">>, <<"my\\xFF", "bin">>)

\* Path::to_str: None for a path that is no valid UTF-8
to_str_ok(path) == path # NonUtf8Model

\* what the engine holds of a token: get_token(t), to_str_lossy, token_data
Token(text, t0, t1, prob) ==
  [some |-> TRUE, text |-> [ok |-> TRUE, v |-> text], t0 |-> t0, t1 |-> t1,
   p |-> prob]
\* get_token(t) is None
NoToken ==
  [some |-> FALSE, text |-> [ok |-> FALSE, v |-> <<>>], t0 |-> 0, t1 |-> 0,
   p |-> 0]
\* to_str_lossy is Err
BadToken ==
  [some |-> TRUE, text |-> [ok |-> FALSE, v |-> <<>>], t0 |-> 0, t1 |-> 0,
   p |-> 0]

\* tokens: absent, unreadable, white space only, the special tokens [_BEG_]
\* and <|x|> (the second after a space), and two words, the second with a
\* bracket that is not its first character; times in centiseconds,
\* probabilities in hundredths
Tokens ==
  { NoToken, BadToken,
    Token(<<" ">>, 0, 0, 10),
    Token(<<"[", "_", "B", "E", "G", "_", "]">>, 0, 0, 99),
    Token(<<" ", "<", "|", "x", "|", ">">>, 120, 120, 80),
    Token(<<" ", "h", "i">>, 0, 50, 95),
    Token(<<"a", "[">>, 50, 120, 40) }

\* what the engine holds of a segment
EngineSegment(tokens) ==
  [some |-> TRUE, start_ts |-> 0, end_ts |-> 0,
   text |-> [ok |-> TRUE, v |-> <<" ", "h", "i">>], speaker_turn |-> FALSE,
   tokens |-> tokens]
\* get_segment(i) is None
NoSegment ==
  [some |-> FALSE, start_ts |-> 0, end_ts |-> 0,
   text |-> [ok |-> FALSE, v |-> <<>>], speaker_turn |-> FALSE,
   tokens |-> <<>>]
\* to_str_lossy of the segment is Err
BadSegment ==
  [some |-> TRUE, start_ts |-> 0, end_ts |-> 0,
   text |-> [ok |-> FALSE, v |-> <<>>], speaker_turn |-> FALSE,
   tokens |-> <<>>]

\* the segments of j tokens
SegmentsOf(j) ==
  {EngineSegment(ts) : ts \in [1..j -> Tokens]}
    \cup (IF j = 0 THEN {NoSegment, BadSegment} ELSE {})

\* the tokens of the segments the engine has returned so far
RECURSIVE n_tokens(_)
n_tokens(ss) ==
  IF ss = <<>> THEN 0 ELSE Len(Head(ss).tokens) + n_tokens(Tail(ss))

\* segment i runs from second i to second i + 1
timed(seg, i) ==
  IF seg.some THEN [seg EXCEPT !.start_ts = 100 * i, !.end_ts = 100 * (i + 1)]
  ELSE seg

\* what the engine does in a call: a failure of WhisperContext::new_with_params,
\* of create_state or of full, or full_n_segments() segments, of which
\* `segments` holds what get_segment has returned so far
NotStarted == [fail |-> "unused", n |-> 0, segments |-> <<>>]
EngineRuns ==
  {[fail |-> f, n |-> 0, segments |-> <<>>] : f \in {"init", "state", "full"}}
    \cup {[fail |-> "none", n |-> n, segments |-> <<>>] : n \in 0..MaxSegments}

\* types.rs:5-10  Word
Word(text, start, end, probability) ==
  [text |-> text, start |-> start, end |-> end, probability |-> probability]

\* transcribe.rs:118  `as f64 / 100.0`: centiseconds as seconds, a second
\* being 2000 half milliseconds
secs(cs) == cs * 20

\* transcribe.rs:94-122 comparing the text as it is, not trimmed
RECURSIVE word_list_untrimmed(_)
word_list_untrimmed(tokens) ==
  IF tokens = <<>> THEN <<>>
  ELSE LET token == Head(tokens)
           rest == word_list_untrimmed(Tail(tokens))
       IN IF ~token.some THEN rest
          ELSE IF ~token.text.ok THEN rest
          ELSE IF \/ token.text.v = <<>>
                  \/ starts_with(token.text.v, <<"[">>)
                  \/ starts_with(token.text.v, <<"<">>)
                 THEN rest
          ELSE <<Word(token.text.v, secs(token.t0), secs(token.t1), token.p)>>
                 \o rest

\* transcribe.rs:94-122  the loop over the tokens of a segment
RECURSIVE word_list(_)
word_list(tokens) ==
  IF tokens = <<>> THEN <<>>
  ELSE LET token == Head(tokens)
           rest == word_list(Tail(tokens))
       IN IF ~token.some THEN rest
          ELSE IF ~token.text.ok THEN rest
          ELSE IF \/ trim(token.text.v) = <<>>
                  \/ starts_with(trim(token.text.v), <<"[">>)
                  \/ starts_with(trim(token.text.v), <<"<">>)
                 THEN rest
          ELSE <<Word(token.text.v, secs(token.t0), secs(token.t1), token.p)>>
                 \o rest

\* Option<Vec<Word>>
NoWords == [some |-> FALSE, v |-> <<>>]
SomeWords(ws) == [some |-> TRUE, v |-> ws]

\* transcribe.rs:90-127  let words = if options.word_timestamps { .. }
words(opts, segment) ==
  IF opts.word_timestamps THEN SomeWords(word_list(segment.tokens))
  ELSE NoWords

\* transcribe.rs:81-136  the Segment pushed for a segment of the engine
segment_of(opts, seg) ==
  [start |-> secs(seg.start_ts), end |-> secs(seg.end_ts), text |-> seg.text.v,
   speaker_turn |-> seg.speaker_turn, words |-> words(opts, seg)]

\* transcribe.rs:147-154  the Transcript, the fields followed here
Transcript(segs) ==
  [segments |-> segs, source_url |-> NoneUrl, source_title |-> NoneStr]
NotReturned == [some |-> FALSE, v |-> Transcript(<<>>)]
Returned(t) == [some |-> TRUE, v |-> t]

\* what no step of the calls below changes
tsFrame == <<requested, model, url, process_id, fsVars, dlVars, title, audio,
             transcript, requests, spawned, lastRename, audioVars, fmtVars,
             stages>>

\* config.rs:291-294  TranscribeOptions::language, which consumes the builder
OptLanguage(p) ==
  /\ pc[p] = "idle"
  /\ \E str \in LangStrings :
       /\ lang' = SomeLang(str)
       /\ IF Language_new(str).ok
            THEN /\ options' = [options EXCEPT !.language = Language_new(str).v]
                 /\ UNCHANGED <<pc, entry, result, err>>
            ELSE /\ entry' = [entry EXCEPT ![p] = "options"]
                 /\ Finish(p, Err(Error("UnsupportedLanguage", "", NoPath)))
                 /\ UNCHANGED options
  /\ UNCHANGED <<tsFrame, model_path, engine, segments, params, returned>>

\* config.rs:301-304  TranscribeOptions::word_timestamps
OptWordTimestamps(p) ==
  /\ pc[p] = "idle"
  /\ \E enabled \in BOOLEAN :
       /\ enabled # options.word_timestamps
       /\ options' = [options EXCEPT !.word_timestamps = enabled]
  /\ UNCHANGED <<tsFrame, pc, entry, result, err, model_path, lang, engine,
                 segments, params, returned>>

\* config.rs:311-314  TranscribeOptions::n_threads
OptThreads(p) ==
  /\ pc[p] = "idle"
  /\ \E n \in ThreadCounts :
       /\ options.n_threads # Some(n)
       /\ options' = [options EXCEPT !.n_threads = Some(n)]
  /\ UNCHANGED <<tsFrame, pc, entry, result, err, model_path, lang, engine,
                 segments, params, returned>>

\* config.rs:331-334  TranscribeOptions::temperature
OptTemperature(p) ==
  /\ pc[p] = "idle"
  /\ \E temp \in Temperatures :
       /\ options.temperature # temp
       /\ options' = [options EXCEPT !.temperature = temp]
  /\ UNCHANGED <<tsFrame, pc, entry, result, err, model_path, lang, engine,
                 segments, params, returned>>

\* config.rs:336-339  TranscribeOptions::beam_size
OptBeamSize(p) ==
  /\ pc[p] = "idle"
  /\ \E size \in BeamSizes :
       /\ options.beam_size # Some(size)
       /\ options' = [options EXCEPT !.beam_size = Some(size)]
  /\ UNCHANGED <<tsFrame, pc, entry, result, err, model_path, lang, engine,
                 segments, params, returned>>

\* a caller of transcribe_samples (transcribe.rs:12-16) with the options it
\* holds and a model path; the engine's part in the call is fixed here
StartTranscribe(p) ==
  /\ pc[p] = "idle"
  /\ entry' = [entry EXCEPT ![p] = "transcribe_samples"]
  /\ \/ /\ model_path' = [model_path EXCEPT ![p] = NonUtf8Model]
        /\ engine' = NotStarted
     \/ /\ model_path' = [model_path EXCEPT ![p] = CustomPresent]
        /\ engine' \in EngineRuns
  /\ lang' = NoLang
  /\ Goto(p, "ts_ctx")
  /\ UNCHANGED <<tsFrame, result, err, options, segments, params, returned>>

\* transcribe.rs:19-30  WhisperContext::new_with_params(..)?, create_state()?
TsContext(p) ==
  /\ pc[p] = "ts_ctx"
  /\ IF ~to_str_ok(model_path[p])
       THEN Raise(p, Error("Model", "model path contains invalid UTF-8", NoPath))
     ELSE IF engine.fail = "init" THEN Raise(p, Error("Whisper", "init", NoPath))
     ELSE IF engine.fail = "state" THEN Raise(p, Error("Whisper", "state", NoPath))
     ELSE Goto(p, "ts_full") /\ UNCHANGED <<result, err>>
  /\ UNCHANGED <<tsFrame, entry, model_path, tsVars>>

\* transcribe.rs:32-74  the parameters, state.full(params, samples)?, and
\* the empty Vec
TsFull(p) ==
  /\ pc[p] = "ts_full"
  /\ IF engine.fail = "full" THEN Raise(p, Error("Whisper", "full", NoPath))
     ELSE Goto(p, "ts_segment") /\ UNCHANGED <<result, err>>
  /\ params' = full_params(options)
  /\ UNCHANGED <<tsFrame, entry, model_path, options, lang, engine, segments,
                 returned>>

\* transcribe.rs:76-137  one round of the loop over the segments, with what
\* the engine returns for segment i
TsSegment(p) ==
  /\ pc[p] = "ts_segment"
  /\ Len(engine.segments) < engine.n
  /\ \E j \in 0..(MaxTokens - n_tokens(engine.segments)) :
       \E got \in SegmentsOf(j) :
         LET segment == timed(got, Len(engine.segments))
         IN /\ engine' = [engine EXCEPT !.segments = Append(@, segment)]
            /\ IF ~segment.some
                 THEN /\ Raise(p, Error("Transcription", "segment not found", NoPath))
                      /\ segments' = <<>>
               ELSE IF ~segment.text.ok
                 THEN /\ Raise(p, Error("Transcription", "segment text error", NoPath))
                      /\ segments' = <<>>
               ELSE /\ segments' = Append(segments, segment_of(options, segment))
                    /\ UNCHANGED <<pc, result, err>>
  /\ UNCHANGED <<tsFrame, entry, model_path, options, lang, params, returned>>

\* transcribe.rs:139-155  after the loop: Ok(Transcript { segments, .. })
TsReturn(p) ==
  /\ pc[p] = "ts_segment"
  /\ Len(engine.segments) = engine.n
  /\ returned' = Returned(Transcript(segments))
  /\ segments' = <<>>
  /\ Finish(p, Ok(NoPath))
  /\ UNCHANGED <<tsFrame, entry, model_path, options, lang, engine, params>>

(* ---------------------------------------------------------------------- *)
(* The callers                                                             *)
(* ---------------------------------------------------------------------- *)
ModelsOf(r) == {Named(r), Custom(CustomPresent), Custom(CustomMissing)}

\* a caller of model::ensure_model (model.rs:18) with a named model
StartEnsure(p) ==
  /\ pc[p] = "idle"
  /\ model' = [model EXCEPT ![p] = Named(requested)]
  /\ entry' = [entry EXCEPT ![p] = "ensure_model"]
  /\ Goto(p, "em_match")
  /\ UNCHANGED <<requested, process_id, url, audio, fsVars, dlVars, title,
                 model_path, err, result, transcript, requests, spawned,
                 lastRename>>
  /\ UNCHANGED pureVars

\* a caller of model::ensure_model (model.rs:18) with a custom model
StartCustom(p) ==
  /\ pc[p] = "idle"
  /\ \E path \in {CustomPresent, CustomMissing} :
       model' = [model EXCEPT ![p] = Custom(path)]
  /\ entry' = [entry EXCEPT ![p] = "ensure_model"]
  /\ Goto(p, "em_match")
  /\ UNCHANGED <<requested, process_id, url, audio, fsVars, dlVars, title,
                 model_path, err, result, transcript, requests, spawned,
                 lastRename>>
  /\ UNCHANGED pureVars

\* a caller of transcribe_file_with_options (lib.rs:47-55)
StartFile(p) ==
  /\ pc[p] = "idle"
  /\ \E m \in ModelsOf(requested) : model' = [model EXCEPT ![p] = m]
  /\ \E a \in {AudioPresent, AudioMissing} : audio' = [audio EXCEPT ![p] = a]
  /\ entry' = [entry EXCEPT ![p] = "transcribe_file"]
  /\ Goto(p, "em_match")
  /\ UNCHANGED <<requested, process_id, url, fsVars, dlVars, title,
                 model_path, err, result, transcript, requests, spawned,
                 lastRename>>
  /\ UNCHANGED pureVars

\* a caller of transcribe_with_options (lib.rs:74-90)
StartUrl(p) ==
  /\ pc[p] = "idle"
  /\ \E m \in ModelsOf(requested) : model' = [model EXCEPT ![p] = m]
  /\ \E u \in Urls : url' = [url EXCEPT ![p] = u]
  /\ entry' = [entry EXCEPT ![p] = "transcribe_url"]
  /\ Goto(p, "da_validate")
  /\ UNCHANGED <<requested, process_id, audio, fsVars, dlVars, title,
                 model_path, err, result, transcript, requests, spawned,
                 lastRename>>
  /\ UNCHANGED pureVars

(* ---------------------------------------------------------------------- *)
(* JSON: to_json, to_json_pretty and serde_json::from_str (types.rs)       *)
(* ---------------------------------------------------------------------- *)
\* an f64 or f32: a finite number, in thousandths, or a value that is not
\* finite (NaN, an infinity)
Finite(n) == [finite |-> TRUE, v |-> n]
NaN == [finite |-> FALSE, v |-> 0]
Infinity == [finite |-> FALSE, v |-> 1]
Floats == {Finite(0), Finite(5500), NaN, Infinity}

\* the values of a JSON document
Null == [t |-> "null", v |-> 0]
JNumber(n) == [t |-> "number", v |-> n]
JString(str) == [t |-> "string", v |-> str]
JBool(b) == [t |-> "bool", v |-> b]
JArray(seq) == [t |-> "array", v |-> seq]
JObject(fields) == [t |-> "object", v |-> fields]

\* serde_json's serialize_f64 / serialize_f32: a finite number is written as a
\* number, NaN and the infinities are written as null
serialize_float(x) == IF x.finite THEN JNumber(x.v) ELSE Null

\* Serialize for Option<String>: None is null
serialize_opt_string(o) == IF o.some THEN JString(o.v) ELSE Null

\* types.rs:4-10  #[derive(Serialize)] for Word
serialize_word(w) ==
  JObject([text |-> JString(w.text), start |-> serialize_float(w.start),
           end |-> serialize_float(w.end),
           probability |-> serialize_float(w.probability)])

\* Serialize for Option<Vec<Word>>
serialize_words(o) ==
  IF o.some THEN JArray([i \in DOMAIN o.v |-> serialize_word(o.v[i])]) ELSE Null

\* types.rs:13-21  #[derive(Serialize)] for Segment
serialize_segment(seg) ==
  JObject([start |-> serialize_float(seg.start), end |-> serialize_float(seg.end),
           text |-> JString(seg.text), speaker_turn |-> JBool(seg.speaker_turn),
           no_speech_probability |-> serialize_float(seg.no_speech_probability),
           words |-> serialize_words(seg.words)])

\* types.rs:75-83  to_json and to_json_pretty: the document of the
\* Transcript (types.rs:24-32, #[derive(Serialize)]); the two differ in the
\* white space between its values only
to_json(t) ==
  JObject([segments |->
             JArray([i \in DOMAIN t.segments |-> serialize_segment(t.segments[i])]),
           language |-> JString(t.language),
           duration |-> serialize_float(t.duration),
           model |-> JString(t.model),
           source_url |-> serialize_opt_string(t.source_url),
           source_title |-> serialize_opt_string(t.source_title)])

\* the Result of a deserialisation
Parsed(x) == [ok |-> TRUE, v |-> x]
Invalid == [ok |-> FALSE, v |-> 0]

\* Deserialize for f64 and f32: a number; null is an invalid type
deserialize_float(j) == IF j.t = "number" THEN Parsed(Finite(j.v)) ELSE Invalid

\* Deserialize for String and bool
deserialize_string(j) == IF j.t = "string" THEN Parsed(j.v) ELSE Invalid
deserialize_bool(j) == IF j.t = "bool" THEN Parsed(j.v) ELSE Invalid

\* Deserialize for Option<String>: null is None
deserialize_opt_string(j) ==
  IF j.t = "null" THEN Parsed(NoneStr)
  ELSE IF j.t = "string" THEN Parsed(SomeStr(j.v)) ELSE Invalid

\* types.rs:4-10  #[derive(Deserialize)] for Word
deserialize_word(j) ==
  IF j.t # "object" THEN Invalid
  ELSE LET start == deserialize_float(j.v.start)
           end == deserialize_float(j.v.end)
           text == deserialize_string(j.v.text)
           probability == deserialize_float(j.v.probability)
       IN IF start.ok /\ end.ok /\ text.ok /\ probability.ok
            THEN Parsed(Word(text.v, start.v, end.v, probability.v))
            ELSE Invalid

\* Deserialize for Option<Vec<Word>>
deserialize_words(j) ==
  IF j.t = "null" THEN Parsed(NoWords)
  ELSE IF j.t = "array" /\ \A i \in DOMAIN j.v : deserialize_word(j.v[i]).ok
    THEN Parsed(SomeWords([i \in DOMAIN j.v |-> deserialize_word(j.v[i]).v]))
    ELSE Invalid

\* types.rs:13-21  #[derive(Deserialize)] for Segment
deserialize_segment(j) ==
  IF j.t # "object" THEN Invalid
  ELSE LET start == deserialize_float(j.v.start)
           end == deserialize_float(j.v.end)
           text == deserialize_string(j.v.text)
           speaker_turn == deserialize_bool(j.v.speaker_turn)
           no_speech == deserialize_float(j.v.no_speech_probability)
           ws == deserialize_words(j.v.words)
       IN IF start.ok /\ end.ok /\ text.ok /\ speaker_turn.ok /\ no_speech.ok
             /\ ws.ok
            THEN Parsed([start |-> start.v, end |-> end.v, text |-> text.v,
                         speaker_turn |-> speaker_turn.v,
                         no_speech_probability |-> no_speech.v, words |-> ws.v])
            ELSE Invalid

\* serde_json::from_str::<Transcript> (types.rs:24-32, #[derive(Deserialize)])
from_str(j) ==
  IF j.t # "object" THEN Invalid
  ELSE LET segs == j.v.segments
           language == deserialize_string(j.v.language)
           duration == deserialize_float(j.v.duration)
           name == deserialize_string(j.v.model)
           source_url == deserialize_opt_string(j.v.source_url)
           source_title == deserialize_opt_string(j.v.source_title)
       IN IF /\ segs.t = "array"
             /\ \A i \in DOMAIN segs.v : deserialize_segment(segs.v[i]).ok
             /\ language.ok /\ duration.ok /\ name.ok
             /\ source_url.ok /\ source_title.ok
            THEN Parsed([segments |->
                           [i \in DOMAIN segs.v |-> deserialize_segment(segs.v[i]).v],
                         language |-> language.v, duration |-> duration.v,
                         model |-> name.v, source_url |-> source_url.v,
                         source_title |-> source_title.v])
            ELSE Invalid

\* before a Transcript is built
NoJson ==
  [phase |-> "none", doc |-> Null, pretty |-> FALSE, text |-> Null,
   back |-> Invalid]

\* the word lists of a Segment: none, and one word with its probability
WordLists ==
  {NoWords} \cup
  {SomeWords(<<Word(" Hello", Finite(0), Finite(1000), pr)>>) : pr \in Floats}

\* a caller builds a Transcript without segments (types.rs:150-157)
JsNew ==
  /\ json.phase = "none"
  /\ \E duration \in Floats :
       \E source \in {<<NoneStr, NoneStr>>,
                      <<SomeStr("https://example.com/video"), SomeStr("Test Video")>>} :
         json' = [json EXCEPT
                    !.phase = "built",
                    !.doc = [segments |-> <<>>, language |-> "en",
                             duration |-> duration, model |-> "large-v3",
                             source_url |-> source[1],
                             source_title |-> source[2]]]
  /\ UNCHANGED <<fmtFrame, doc, srt, vtt>>

\* and pushes a Segment (types.rs:113-133)
JsPush ==
  /\ json.phase = "built"
  /\ Len(json.doc.segments) < MaxSegments
  /\ \E ws \in WordLists :
       \E speaker_turn \in BOOLEAN :
         json' = [json EXCEPT
                    !.doc.segments =
                       Append(@, [start |-> Finite(0), end |-> Finite(2500),
                                  text |-> " Hello world.",
                                  speaker_turn |-> speaker_turn,
                                  no_speech_probability |-> Finite(100),
                                  words |-> ws])]
  /\ UNCHANGED <<fmtFrame, doc, srt, vtt>>

\* types.rs:75-83  a call of to_json or of to_json_pretty
ToJson ==
  /\ json.phase = "built"
  /\ \E pretty \in BOOLEAN :
       json' = [json EXCEPT !.phase = "encoded", !.pretty = pretty,
                            !.text = to_json(json.doc)]
  /\ UNCHANGED <<fmtFrame, doc, srt, vtt>>

\* types.rs:231-235  serde_json::from_str on the output
FromStr ==
  /\ json.phase = "encoded"
  /\ json' = [json EXCEPT !.phase = "decoded", !.back = from_str(json.text)]
  /\ UNCHANGED <<fmtFrame, doc, srt, vtt>>


(* ---------------------------------------------------------------------- *)
(* The older crate: ensure_model and download_model of transkribo/model.rs *)
(* ---------------------------------------------------------------------- *)
\* transkribo model.rs:72  dest.with_extension("bin.part")
part_path(d) == with_extension(d, <<"bin", "part">>)

\* the temp path of invocation p
part(p) == part_path(dest(p))

\* what no step of the older download_model changes
tkFrame == <<requested, model, url, process_id, dirs, guard, audio, title,
             transcript, spawned, lastRename, pureVars>>

\* transkribo model.rs:15-45  ensure_model with a preset: the cached path, or
\* the cache directory and then download_model
TkStart(p) ==
  /\ pc[p] = "idle"
  /\ model' = [model EXCEPT ![p] = Named(requested)]
  /\ entry' = [entry EXCEPT ![p] = "transkribo_ensure_model"]
  /\ IF is_cached(files, dest_of(requested))
       THEN /\ model_path' = [model_path EXCEPT ![p] = dest_of(requested)]
            /\ pc' = [pc EXCEPT ![p] = "done"]
            /\ result' = [result EXCEPT ![p] = Ok(dest_of(requested))]
       ELSE /\ Goto(p, "tk_send")
            /\ UNCHANGED <<model_path, result>>
  /\ UNCHANGED <<requested, url, process_id, fsVars, dlVars, audio, title, err,
                 transcript, requests, spawned, lastRename, pureVars>>

\* transkribo model.rs:47-55: the request, the response, its advertised length
TkSend(p) ==
  /\ pc[p] = "tk_send"
  /\ requests' = [requests EXCEPT ![p] = @ + 1]
  /\ \/ /\ \E e \in {Error("Http", "", NoPath),
                     Error("ModelDownload", "HTTP error", NoPath)} :
             Finish(p, Err(e))
        /\ UNCHANGED <<response, total_size>>
     \/ /\ \E cl \in Advertised :
             /\ response' = [response EXCEPT ![p] = cl]
             /\ total_size' = [total_size EXCEPT ![p] = unwrap_or(cl, 0)]
        /\ Goto(p, "tk_create")
        /\ UNCHANGED <<result, err>>
  /\ UNCHANGED <<tkFrame, entry, files, model_path, downloaded, chunks>>

\* transkribo model.rs:73  File::create(&tmp_path)?
TkCreate(p) ==
  /\ pc[p] = "tk_create"
  /\ \/ /\ files' = create(files, part(p), p)
        /\ Goto(p, "tk_stream")
        /\ UNCHANGED <<result, err>>
     \/ /\ Finish(p, Err(Error("Io", "", NoPath)))
        /\ UNCHANGED files
  /\ UNCHANGED <<tkFrame, entry, model_path, streamVars, requests>>

\* transkribo model.rs:78-83: one turn of the loop, or its end
TkChunk(p) ==
  /\ pc[p] = "tk_stream"
  /\ \/ \E c \in Chunks :
          /\ chunks[p] < MaxChunks
          /\ \/ /\ files' = write_all(files, part(p), p, c)
                /\ chunks' = [chunks EXCEPT ![p] = @ + 1]
                /\ downloaded' = [downloaded EXCEPT ![p] = @ + c]
                /\ UNCHANGED <<pc, result, err>>
             \/ /\ Finish(p, Err(Error("Io", "", NoPath)))
                /\ UNCHANGED <<files, chunks, downloaded>>
     \/ /\ Finish(p, Err(Error("Http", "", NoPath)))
        /\ UNCHANGED <<files, chunks, downloaded>>
     \/ /\ files' = end_of_stream(files, part(p), p, response[p])
        /\ Goto(p, "tk_verify")
        /\ UNCHANGED <<result, err, chunks, downloaded>>
  /\ UNCHANGED <<tkFrame, entry, model_path, response, total_size, requests>>

\* transkribo model.rs:85-95: flush, metadata, and the check of the least
\* size, which removes the temp file
TkVerify(p) ==
  /\ pc[p] = "tk_verify"
  /\ \/ /\ Finish(p, Err(Error("Io", "", NoPath)))
        /\ UNCHANGED files
     \/ /\ exists(part(p))
        /\ IF files[part(p)].size < MIN_MODEL_KB
             THEN /\ files' = Del(files, part(p))
                  /\ Finish(p, Err(Error("ModelDownload", "too_small", NoPath)))
             ELSE /\ Goto(p, "tk_rename")
                  /\ UNCHANGED <<files, result, err>>
  /\ UNCHANGED <<tkFrame, entry, model_path, streamVars, requests>>

\* transkribo model.rs:97-108: the rename, the warning on a size other than
\* the advertised one, Ok(()); model.rs:41-43 Ok(model_path)
TkRename(p) ==
  /\ pc[p] = "tk_rename"
  /\ \/ /\ exists(part(p))
        /\ files' = rename(files, part(p), dest(p))
        /\ model_path' = [model_path EXCEPT ![p] = dest(p)]
        /\ Finish(p, Ok(dest(p)))
     \/ /\ Finish(p, Err(Error("Io", "", NoPath)))
        /\ UNCHANGED <<files, model_path>>
  /\ UNCHANGED <<tkFrame, entry, streamVars, requests>>

(* ---------------------------------------------------------------------- *)
(* Specifications                                                          *)
(* ---------------------------------------------------------------------- *)
Base == [x \in BaseFiles |-> OtherFile]
BaseDirs == {TempRoot}

\* the cache before the run: no directory, an empty directory, or a model
\* that an earlier run downloaded
CacheStates == {"nodir", "empty", "cached"}

\* before any call: no AudioProcessing passed, no decoder run, no buffer
InitAudioVars ==
  /\ processing = DefaultProcessing
  /\ ffmpeg = NotRun
  /\ samples = <<>>
  /\ ran = <<>>

\* before any call: an empty Transcript, nothing rendered
InitFmtVars ==
  /\ doc = [segments |-> <<>>]
  /\ srt = NotRendered
  /\ vtt = NotRendered
  /\ json = NoJson

\* before any call: TranscribeOptions::default(), no engine run, nothing returned
InitTsVars ==
  /\ options = DefaultOptions
  /\ lang = NoLang
  /\ engine = NotStarted
  /\ segments = <<>>
  /\ params = NoParams
  /\ returned = NotReturned

InitPure ==
  /\ InitAudioVars
  /\ InitFmtVars
  /\ InitTsVars
  /\ stages = [p \in Procs |-> <<>>]

InitOf(S, M, ids) ==
  /\ requested \in M
  /\ \E c \in S :
       /\ dirs = IF c = "nodir" THEN BaseDirs ELSE BaseDirs \cup {CacheDir}
       /\ files = IF c = "cached" THEN Put(Base, dest_of(requested), PriorModel)
                  ELSE IF c = "junk" THEN Put(Base, dest_of(requested), JunkModel)
                  ELSE Base
  /\ process_id = ids
  /\ pc = [p \in Procs |-> "idle"]
  /\ entry = [p \in Procs |-> "none"]
  /\ model = [p \in Procs |-> NoModel]
  /\ url = [p \in Procs |-> NoUrl]
  /\ audio = [p \in Procs |-> NoPath]
  /\ title = [p \in Procs |-> NoneStr]
  /\ model_path = [p \in Procs |-> NoPath]
  /\ response = [p \in Procs |-> None]
  /\ total_size = [p \in Procs |-> 0]
  /\ downloaded = [p \in Procs |-> 0]
  /\ chunks = [p \in Procs |-> 0]
  /\ guard = [p \in Procs |-> "none"]
  /\ err = [p \in Procs |-> NoErr]
  /\ result = [p \in Procs |-> Pending]
  /\ transcript = [p \in Procs |-> NoTranscript]
  /\ requests = [p \in Procs |-> 0]
  /\ spawned = [p \in Procs |-> 0]
  /\ lastRename = 0
  /\ InitPure

\* every invocation is a process of its own: std::process::id() differs
InitWith(S, M) == InitOf(S, M, [p \in Procs |-> p])

\* the invocations are tasks of one process: std::process::id() is the same
\* for all of them; the model is not in the cache
InitTasks == InitOf({"nodir", "empty"}, RacedModels, [p \in Procs |-> 1])

Init == InitWith(CacheStates, RacedModels)

\* ensure_model and download_model, one step of invocation p
CacheStep(p) ==
  \/ EmMatch(p)
  \/ EmMkdir(p)
  \/ DmSend(p)
  \/ DmCheck(p)
  \/ DmCreate(p)
  \/ DmChunk(p)
  \/ DmVerify(p)
  \/ DmRename(p)
  \/ DmReturn(p)
  \/ DmDrop(p)

\* Separate processes calling ensure_model on one cache directory.
Next ==
  \E p \in Procs :
    \/ StartEnsure(p)
    \/ CacheStep(p)

Spec == Init /\ [][Next]_vars

\* Tasks of one process calling ensure_model on one cache directory.
SpecTasks == InitTasks /\ [][Next]_vars

\* Callers with named and with custom models, over a cache that may hold
\* any file under the model's name (model.rs:234-236 writes a 17-byte one).
NextAnyCache ==
  \E p \in Procs :
    \/ StartEnsure(p)
    \/ StartCustom(p)
    \/ CacheStep(p)

InitAnyCache == InitWith(CacheStates \cup {"junk"}, RacedModels)
SpecAnyCache == InitAnyCache /\ [][NextAnyCache]_vars

\* One invocation of a facade entry point.
NextFacade ==
  \E p \in {1} :
    \/ StartFile(p)
    \/ StartUrl(p)
    \/ CacheStep(p)
    \/ DaValidate(p)
    \/ DaCheck(p)
    \/ DaMkdir(p)
    \/ DaInfo(p)
    \/ DaDownload(p)
    \/ DaPath(p)
    \/ LoadAudio(p)
    \/ TranscribeSamples(p)
    \/ TwAttach(p)
    \/ TwDrop(p)

InitFacade == InitWith(CacheStates, RequestedModels)
SpecFacade == InitFacade /\ [][NextFacade]_vars

\* One call of load_audio.
NextAudio ==
  \E p \in {1} :
    \/ StartLoad(p)
    \/ LaExists(p)
    \/ LaDecode(p)
    \/ LaDc(p)
    \/ LaNorm(p)
    \/ LaTrim(p)
    \/ LaReturn(p)

InitAudio == InitWith({"empty"}, RacedModels)
SpecAudio == InitAudio /\ [][NextAudio]_vars

\* The rendering methods called on a Transcript.
NextFormat ==
  \/ NewTranscript
  \/ ToSrt
  \/ ToVtt

\* A caller of the older crate's ensure_model.
NextTranskribo ==
  \E p \in {1} :
    \/ TkStart(p)
    \/ TkSend(p)
    \/ TkCreate(p)
    \/ TkChunk(p)
    \/ TkVerify(p)
    \/ TkRename(p)

\* A caller that builds a Transcript, writes it as JSON and reads it back.
NextJson ==
  \/ JsNew
  \/ JsPush
  \/ ToJson
  \/ FromStr

\* A caller that builds TranscribeOptions and calls transcribe_samples.
NextTranscribe ==
  \E p \in {1} :
    \/ OptLanguage(p)
    \/ OptWordTimestamps(p)
    \/ StartTranscribe(p)
    \/ TsContext(p)
    \/ TsFull(p)
    \/ TsSegment(p)
    \/ TsReturn(p)

InitTranscribe == InitWith({"empty"}, RacedModels)
SpecTranscribe == InitTranscribe /\ [][NextTranscribe]_vars

\* A caller that sets the numeric options and calls transcribe_samples.
NextNumeric ==
  \E p \in {1} :
    \/ OptThreads(p)
    \/ OptTemperature(p)
    \/ OptBeamSize(p)
    \/ StartTranscribe(p)
    \/ TsContext(p)
    \/ TsFull(p)
    \/ TsSegment(p)
    \/ TsReturn(p)

SpecNumeric == InitTranscribe /\ [][NextNumeric]_vars

InitFormat == InitWith({"empty"}, RacedModels)
SpecFormat == InitFormat /\ [][NextFormat]_vars
SpecTranskribo == InitFacade /\ [][NextTranskribo]_vars
SpecJson == InitFormat /\ [][NextJson]_vars


(* ---------------------------------------------------------------------- *)
(* Properties                                                              *)
(* ---------------------------------------------------------------------- *)
\* invocation p asked for a named model
IsNamed(p) == entry[p] # "none" /\ ~model[p].custom

\* the error p is propagating, or the result it returned
Outcome(p) == IF pc[p] = "done" THEN result[p] ELSE Err(err[p])

\* p went through download_model and ensure_model returned Ok
DownloadedOk(p) ==
  /\ IsNamed(p)
  /\ pc[p] = "done"
  /\ result[p].tag = "Ok"
  /\ requests[p] = 1

\* a file that holds all bytes of one finished stream and passes both checks
Complete(f) ==
  /\ f.eof
  /\ f.by # -1
  /\ f.size >= MIN_MODEL_KB
  /\ f.adv.some => f.size = f.adv.v

\* C1: under every interleaving of the processes and every failure, the
\* final cache path of a model either does not exist or holds a complete,
\* verified file: all bytes of one finished stream, at least 1,000,000 bytes
\* and as many as the response advertised when it advertised a length.
C1_CacheIntegrity ==
  \A m \in NamedModels :
    exists(dest_paths[m]) => Complete(files[dest_paths[m]])

\* for every preset, the temp paths of distinct process ids differ from each
\* other and from the final path of every preset
PresetTempPathsDistinct ==
  \A m, n \in NamedModels : \A i, j \in Procs :
    /\ tmp_paths[m][i] # dest_paths[n]
    /\ i # j => tmp_paths[m][i] # tmp_paths[m][j]

\* C2: two processes that download the same model never use the same temp
\* path, no temp path is a final cache path, and so no file is written by
\* two processes.
C2_TempPathsDistinct ==
  /\ PresetTempPathsDistinct
  /\ \A p \in Procs :
       (IsNamed(p) /\ guard[p] # "none") =>
         \A q \in Procs :
           IsNamed(q) =>
             /\ tmp(p) # dest(q)
             /\ (q # p /\ guard[q] # "none" /\ dest(q) = dest(p))
                  => tmp(q) # tmp(p)
  /\ \A x \in DOMAIN files : files[x].by # -1

\* C2 witness: two processes are streaming the same model at once, each into
\* its own temp file.
C2_Witness ==
  \E p, q \in Procs :
    /\ p # q
    /\ pc[p] = "dm_stream" /\ pc[q] = "dm_stream"
    /\ exists(tmp(p)) /\ exists(tmp(q))
    /\ files[tmp(p)].size > 0 /\ files[tmp(q)].size > 0

\* C3: once two processes that both missed the cache and both downloaded
\* have returned, the final path holds the complete file of the process
\* whose rename came last, both returned that final path, and neither temp
\* file remains.
C3_ColdCacheRace ==
  \A p, q \in Procs :
    (p # q /\ DownloadedOk(p) /\ DownloadedOk(q)) =>
      /\ exists(dest(p))
      /\ lastRename \in Procs
      /\ files[dest(p)].by = lastRename
      /\ files[dest(p)].eof
      /\ result[p] = Ok(dest(p))
      /\ result[q] = Ok(dest(p))
      /\ ~exists(tmp(p))
      /\ ~exists(tmp(q))

\* C3 witness: both processes downloaded and returned, and the file in the
\* cache is the one of process 1, whose stream differed from the other's.
C3_Witness ==
  /\ DownloadedOk(1) /\ DownloadedOk(2)
  /\ lastRename = 1
  /\ files[dest(1)].by = 1
  /\ files[dest(1)].size = MAX_MODEL_KB

C5_AdvertisedCeiling ==
  [][\A p \in Procs :
       (response[p].some /\ response[p].v > MAX_MODEL_KB /\ pc'[p] # pc[p])
         => /\ pc'[p] = "done"
            /\ result'[p].tag = "Err"
            /\ result'[p].kind = "ModelDownload"
            /\ guard[p] = "none"
            /\ ~exists(tmp(p))
            /\ files' = files
            /\ dirs' = dirs]_vars

\* C5 witness: the call was rejected for its advertised length and the cache
\* directory holds no file of it.
C5_Witness ==
  \E p \in Procs :
    /\ pc[p] = "done"
    /\ result[p].msg = "too large"
    /\ requests[p] = 1
    /\ \A x \in DOMAIN files : x.dir = CacheDir => files[x].by # p

\* C6: download_model reaches its rename only with a temp file of at least
\* 1,000,000 bytes whose size equals the advertised length when the response
\* advertised one.
C6_VerifiedBeforeRename ==
  \A p \in Procs :
    pc[p] = "dm_rename" =>
      /\ exists(tmp(p))
      /\ files[tmp(p)].size >= MIN_MODEL_KB
      /\ response[p].some => files[tmp(p)].size = response[p].v

\* C7: when the canonical file name is present in the cache directory,
\* ensure_model returns exactly that path, with no request, no directory
\* and no file created, whatever the file holds.
C7_CacheHit ==
  [][\A p \in Procs :
       (/\ pc[p] = "em_match"
        /\ pc'[p] # pc[p]
        /\ ~model[p].custom
        /\ exists(join(CacheDir, filename(model[p].name))))
         => /\ pc'[p] = "done"
            /\ result'[p] = Ok(join(CacheDir, filename(model[p].name)))
            /\ requests'[p] = 0
            /\ files' = files
            /\ dirs' = dirs]_vars

\* C7 witness: a call returned the cached path although the file there is
\* far too small to be a model, and sent no request.
C7_Witness ==
  \E p \in Procs :
    /\ IsNamed(p)
    /\ pc[p] = "done"
    /\ result[p] = Ok(dest(p))
    /\ requests[p] = 0
    /\ files[dest(p)] = JunkModel

\* C8: for a custom model ensure_model returns the given path when it exists
\* and model-not-found with that path otherwise, with no request sent and no
\* directory or file created.
C8_CustomModel ==
  [][\A p \in Procs :
       (pc[p] = "em_match" /\ pc'[p] # pc[p] /\ model[p].custom)
         => /\ pc'[p] = "done"
            /\ result'[p] =
                 IF exists(model[p].path)
                   THEN Ok(model[p].path)
                   ELSE Err(Error("ModelNotFound", "", model[p].path))
            /\ requests'[p] = 0
            /\ files' = files
            /\ dirs' = dirs]_vars

\* C8 witness: a custom model that does not exist was reported with its
\* path, and the cache directory was not created.
C8_Witness ==
  \E p \in Procs :
    /\ pc[p] = "done"
    /\ result[p].kind = "ModelNotFound"
    /\ result[p].path = CustomMissing
    /\ CacheDir \notin dirs

Rejected(p) ==
  /\ Outcome(p).tag = "Err"
  /\ Outcome(p).kind = "Download"
  /\ Outcome(p).msg = "invalid URL"
  /\ spawned[p] = 0
  /\ tmp_dir(p) \notin dirs

Inside(path, dir) == is_prefix(resolve_from(<<>>, dir), components(resolve(path)))

\* C11: download_audio returns Ok only with an audio_path that resolves into
\* the output directory and exists; when the downloader reported a path that
\* resolves outside the directory, the call fails with a download error.
C11_PathContainment ==
  [][\A p \in Procs :
       (pc[p] = "da_path" /\ pc'[p] # pc[p]) =>
         /\ pc'[p] = "em_match" =>
              /\ Inside(audio'[p], tmp_dir(p))
              /\ path_exists(files', dirs', audio'[p])
         /\ (audio[p] # NoPath /\ ~Inside(audio[p], tmp_dir(p))) =>
              /\ pc'[p] = "tw_drop"
              /\ err'[p].kind = "Download"]_vars

\* C11 witness: the downloader reported an existing file reached by leaving
\* the directory through `..`, and the call failed for it.
C11_Witness ==
  \E p \in Procs :
    /\ audio[p] = Path(tmp_dir(p) \o <<"..", "..", "etc">>, <<"passwd">>)
    /\ path_exists(files, dirs, audio[p])
    /\ pc[p] = "tw_drop"
    /\ err[p] = Error("Download", "outside", NoPath)


\* p called load_audio
IsLoad(p) == entry[p] = "load_audio"

\* the decoder run of the call did not yield a usable output
DecoderFailed ==
  \/ ffmpeg \in FfmpegFailures
  \/ ffmpeg.kind = "success" /\ ffmpeg.stdout = <<>>

\* C12: load_audio returns audio-not-found without starting the decoder when
\* the path does not exist, and an audio-decode error when the decoder cannot
\* be started, exits with a non-zero status or writes nothing; in each case
\* no buffer is returned and no processing step has run.
C12_DecoderFailures ==
  \A p \in Procs :
    IsLoad(p) =>
      /\ (pc[p] = "done" /\ ~path_exists(files, dirs, audio[p])) =>
           /\ result[p] = Err(Error("AudioNotFound", "", audio[p]))
           /\ spawned[p] = 0
           /\ ffmpeg = NotRun
           /\ samples = <<>> /\ ran = <<>>
      /\ DecoderFailed =>
           /\ pc[p] = "done"
           /\ result[p].tag = "Err"
           /\ result[p].kind = "AudioDecode"
           /\ samples = <<>> /\ ran = <<>>

\* C12 witness: the decoder exited with success and an empty output, and the
\* call with every processing step switched on returned the decode error.
C12_Witness ==
  \E p \in Procs :
    /\ IsLoad(p)
    /\ ffmpeg = Exited(<<>>)
    /\ spawned[p] = 1
    /\ processing.dc_offset_removal /\ processing.normalize /\ processing.trim_silence
    /\ result[p] = Err(Error("AudioDecode", "ffmpeg produced no output", NoPath))


\* load_audio of p has returned Ok(samples)
LoadedOk(p) == IsLoad(p) /\ pc[p] = "done" /\ result[p].tag = "Ok"

InRange(xs) == \A i \in 1..Len(xs) : -ONE <= xs[i] /\ xs[i] <= ONE

\* C13: every sample of the buffer load_audio returns lies in [-1.0, 1.0],
\* for every decoder output and every combination of the processing
\* switches.
C13_SampleRange ==
  \A p \in Procs : LoadedOk(p) => InRange(samples)


\* audio.rs:185  the window of trim_silence
WindowSize == max(WHISPER_SAMPLE_RATE \div 100, 1)

\* the window of xs that starts at i is active at the threshold db
Active(xs, i, db) == rms(slice(xs, i, i + WindowSize)) > db_to_linear(db)

NoWindowActive(xs, db) == \A i \in windows(xs, WindowSize) : ~Active(xs, i, db)
EveryWindowActive(xs, db) ==
  Len(xs) >= WindowSize /\ \A i \in windows(xs, WindowSize) : Active(xs, i, db)

\* C14: for a buffer with no active window, for a buffer whose every window
\* is active, for a buffer shorter than one window and for an empty buffer,
\* trim_silence returns a buffer equal to its input.
C14_TrimIdentity ==
  [][\A p \in Procs :
       (/\ pc[p] = "la_trim" /\ pc'[p] = "la_ret"
        /\ processing.trim_silence
        /\ \/ NoWindowActive(samples, processing.silence_threshold_db)
           \/ EveryWindowActive(samples, processing.silence_threshold_db)
           \/ Len(samples) < WindowSize)
         => /\ samples' = samples
            /\ ran' = Append(ran, "trim_silence")]_vars

\* C14 witness: trim_silence, with no padding, has run on a decoded buffer of
\* more than one window whose every window is active.
C14_Witness ==
  \E p \in Procs :
    /\ pc[p] = "la_ret"
    /\ ran = <<"trim_silence">>
    /\ processing.silence_pad_ms = 0
    /\ Len(samples) > WindowSize
    /\ samples = decode(ffmpeg.stdout)
    /\ EveryWindowActive(samples, processing.silence_threshold_db)

\* the lines of a string: what stands between its line feeds
lines(str) ==
  LET feeds == {i \in 1..Len(str) : str[i] = "\n"}
      n == Cardinality(feeds)
      feed(k) == IF k = 0 THEN 0
                 ELSE IF k = n + 1 THEN Len(str) + 1
                 ELSE CHOOSE i \in feeds : Cardinality({j \in feeds : j < i}) = k - 1
  IN [k \in 1..(n + 1) |-> SubSeq(str, feed(k - 1) + 1, feed(k) - 1)]

\* the number a string of decimal digits denotes
RECURSIVE number(_)
number(str) ==
  IF str = <<>> THEN 0
  ELSE number(SubSeq(str, 1, Len(str) - 1)) * 10
         + (CHOOSE d \in 0..9 : Digits[d + 1] = str[Len(str)])

IsDigits(str) == \A i \in 1..Len(str) : \E d \in 1..10 : Digits[d] = str[i]

\* str is HH:MM:SS<sep>mmm and denotes ms milliseconds
IsClockTime(str, sep, ms) ==
  /\ Len(str) = 12
  /\ str[3] = ":" /\ str[6] = ":" /\ str[9] = sep
  /\ IsDigits(SubSeq(str, 1, 2)) /\ IsDigits(SubSeq(str, 4, 5))
  /\ IsDigits(SubSeq(str, 7, 8)) /\ IsDigits(SubSeq(str, 10, 12))
  /\ number(SubSeq(str, 4, 5)) < 60 /\ number(SubSeq(str, 7, 8)) < 60
  /\ number(SubSeq(str, 1, 2)) * 3600000 + number(SubSeq(str, 4, 5)) * 60000
       + number(SubSeq(str, 7, 8)) * 1000 + number(SubSeq(str, 10, 12)) = ms

\* line is '<start> --> <end>' for the segment, times written with sep
IsTimeLine(line, seg, sep) ==
  /\ Len(line) = 29
  /\ IsClockTime(SubSeq(line, 1, 12), sep, total_ms(seg.start))
  /\ SubSeq(line, 13, 17) = <<" ", "-", "-", ">", " ">>
  /\ IsClockTime(SubSeq(line, 18, 29), sep, total_ms(seg.end))

\* C15: the SRT rendering of a transcript with n segments is n blocks in
\* segment order and nothing else, the k-th block being the line k, the line
\* '<start> --> <end>' with both times as HH:MM:SS,mmm, the trimmed text of
\* the k-th segment and a blank line; with no segment it is the empty string.
C15_SrtBlocks ==
  srt.some =>
    LET n == Len(doc.segments)
        ls == lines(srt.v)
    IN /\ n = 0 => srt.v = <<>>
       /\ Len(ls) = 4 * n + 1
       /\ ls[4 * n + 1] = <<>>
       /\ \A k \in 1..n :
            /\ IsDigits(ls[4 * k - 3]) /\ ls[4 * k - 3] # <<>>
            /\ number(ls[4 * k - 3]) = k
            /\ IsTimeLine(ls[4 * k - 2], doc.segments[k], ",")
            /\ ls[4 * k - 1] = trim(doc.segments[k].text)
            /\ ls[4 * k] = <<>>

\* two segments rendered, the second with text that trimming shortens and a
\* start time of more than an hour
C15_Witness ==
  /\ srt.some
  /\ Len(doc.segments) = 2
  /\ doc.segments[2].start = 7323999
  /\ trim(doc.segments[2].text) # doc.segments[2].text
  /\ trim(doc.segments[2].text) # <<>>
  /\ doc.segments[1].start < 0

\* str with every from replaced by to
replace(str, from, to) ==
  [i \in 1..Len(str) |-> IF str[i] = from THEN to ELSE str[i]]

\* the lines joined again, a line feed between two of them
RECURSIVE join_lines(_)
join_lines(ls) ==
  IF Len(ls) = 0 THEN <<>>
  ELSE IF Len(ls) = 1 THEN ls[1]
  ELSE ls[1] \o Newline \o join_lines(Tail(ls))

\* the lines of an SRT rendering as cues: the index lines dropped, the comma
\* of the time lines replaced by a period
srt_as_cues(ls) ==
  LET kept == SelectSeq([i \in 1..Len(ls) |-> <<i, ls[i]>>],
                        LAMBDA e : e[1] % 4 # 1 \/ e[1] = Len(ls))
  IN [j \in 1..Len(kept) |->
        IF kept[j][1] % 4 = 2 THEN replace(kept[j][2], ",", ".")
        ELSE kept[j][2]]

\* C16: the WebVTT rendering is the header WEBVTT and a blank line followed
\* by the cues of the SRT rendering in the same order, without the index line
\* and with a period for the comma of the times; format_vtt_time is
\* format_srt_time with the comma replaced by a period; with no segment the
\* rendering is exactly the header.
C16_VttAgreesWithSrt ==
  vtt.some =>
    /\ vtt.v = <<"W", "E", "B", "V", "T", "T", "\n", "\n">>
                 \o join_lines(srt_as_cues(lines(to_srt(doc))))
    /\ \A k \in 1..Len(doc.segments) :
         \A t \in {doc.segments[k].start, doc.segments[k].end} :
           format_vtt_time(t) = replace(format_srt_time(t), ",", ".")
    /\ doc.segments = <<>>
         => vtt.v = <<"W", "E", "B", "V", "T", "T", "\n", "\n">>

\* two segments rendered as WebVTT, the first with a comma in its text, the
\* second with milliseconds other than zero
C16_Witness ==
  /\ vtt.some
  /\ Len(doc.segments) = 2
  /\ \E i \in 1..Len(doc.segments[1].text) : doc.segments[1].text[i] = ","
  /\ total_ms(doc.segments[2].end) % 1000 # 0
  /\ total_ms(doc.segments[2].start) # total_ms(doc.segments[2].end)

\* a token that has a text whose trimmed form is not empty and begins with
\* neither '[' nor '<'
IsWordToken(token) ==
  /\ token.some /\ token.text.ok
  /\ trim(token.text.v) # <<>>
  /\ Head(trim(token.text.v)) \notin {"[", "<"}

\* the Words the tokens of an engine segment stand for
ExpectedWords(tokens) ==
  LET kept == SelectSeq(tokens, IsWordToken)
  IN [i \in 1..Len(kept) |->
        [text |-> kept[i].text.v, start |-> (kept[i].t0 * 2000) \div 100,
         end |-> (kept[i].t1 * 2000) \div 100, probability |-> kept[i].p]]

\* C17: in the Transcript transcribe_samples returns, every segment has no
\* Word sequence when word timestamps were not requested; when they were, its
\* Word sequence is the subsequence, in the engine's order, of the segment's
\* tokens whose trimmed text is not empty and begins with neither '[' nor
\* '<', each Word with the token's start and end (centiseconds divided by
\* 100) and its probability.
C17_WordExtraction ==
  returned.some =>
    /\ Len(returned.v.segments) = Len(engine.segments)
    /\ \A k \in 1..Len(returned.v.segments) :
         LET ws == returned.v.segments[k].words
         IN IF options.word_timestamps
              THEN ws.some /\ ws.v = ExpectedWords(engine.segments[k].tokens)
              ELSE ~ws.some

\* word timestamps requested, and a segment of two tokens of which the first,
\* a special token after a space, is left out and the second is a Word
C17_Witness ==
  /\ returned.some
  /\ options.word_timestamps
  /\ \E k \in 1..Len(engine.segments) :
       /\ Len(engine.segments[k].tokens) = 2
       /\ engine.segments[k].tokens[1].some
       /\ engine.segments[k].tokens[1].text.ok
       /\ Head(engine.segments[k].tokens[1].text.v) = " "
       /\ Len(returned.v.segments[k].words.v) = 1
       /\ returned.v.segments[k].words.v[1].start = 1000

\* the call of transcribe_samples met a model path that is no UTF-8, an engine
\* that failed to initialise, or a segment the engine counts but does not
\* return
InferenceFailure(p) ==
  /\ entry[p] = "transcribe_samples"
  /\ result[p].tag = "Err"
  /\ \/ ~to_str_ok(model_path[p])
     \/ engine.fail = "init"
     \/ /\ engine.fail = "none"
        /\ \E i \in 1..Len(engine.segments) :
             /\ ~engine.segments[i].some
             /\ \A j \in 1..(i - 1) :
                  engine.segments[j].some /\ engine.segments[j].text.ok

\* C18: a model path that is not valid UTF-8, a failure to initialise the
\* engine and a segment the engine counts but cannot return are all reported
\* by transcribe_samples as the transcription error, with a message.
C18_SingleErrorKind ==
  \A p \in Procs :
    InferenceFailure(p) => result[p].kind = "Transcription" /\ result[p].msg # ""

\* the Transcript of invocation p has neither source URL nor source title
SourceUnset(p) ==
  /\ ~transcript[p].source_url.some
  /\ ~transcript[p].source_title.some

\* the Transcript of invocation p names the requested URL and has the title
\* the downloader gave, if it gave one
SourceAttached(p) ==
  /\ transcript[p].source_url = [some |-> TRUE, v |-> url[p]]
  /\ transcript[p].source_title = title[p]

\* C19: a Transcript of transcribe_samples and of the local-file entry point
\* has source URL and source title unset; the URL entry point returns Ok with
\* the source URL set to the requested URL and the title to the downloader's
\* title (unset when the downloader gave none); the source is set only after
\* the downloader, the model resolution, the audio loading and the inference
\* have all succeeded.
C19_SourceMetadata ==
  /\ [](\A p \in Procs :
          /\ entry[p] # "transcribe_url" => SourceUnset(p)
          /\ (entry[p] = "transcribe_url" /\ result[p].tag = "Ok")
               => SourceAttached(p) /\ transcript[p].made
          /\ (entry[p] = "transcribe_url" /\ result[p].tag = "Err")
               => SourceUnset(p)
          /\ (entry[p] = "transcribe_url" /\ pc[p] = "transcribe")
               => SourceUnset(p))
  /\ [][\A p \in Procs :
          ~SourceUnset(p)' /\ SourceUnset(p) =>
            /\ entry[p] = "transcribe_url"
            /\ err[p] = NoErr
            /\ validate_url(url[p])
            /\ path_exists(files, dirs, audio[p])
            /\ validate_path_in_dir(files, dirs, audio[p], tmp_dir(p))
            /\ model_path[p] # NoPath
            /\ path_exists(files, dirs, model_path[p])
            /\ spawned[p] >= 4
            /\ transcript[p].made
            /\ SourceAttached(p)']_vars

\* the URL entry point has returned Ok for a URL, with the downloader's title
C19_Witness ==
  \E p \in Procs :
    /\ entry[p] = "transcribe_url"
    /\ result[p].tag = "Ok"
    /\ transcript[p].source_url.some
    /\ transcript[p].source_url.v # <<>>
    /\ transcript[p].source_title.some

\* a language that is Auto or an entry of the engine's table, under its
\* short code and its id
IsValidated(language) ==
  \/ language = [auto |-> TRUE, code |-> <<>>, id |-> -1]
  \/ \E i \in 1..Len(LangTable) :
       language = [auto |-> FALSE, code |-> LangTable[i].code, id |-> i - 1]

\* the entries of the engine's table a string names, case ignored
EntriesNamed(str) ==
  {i \in 1..Len(LangTable) :
     \/ to_lowercase(str) = LangTable[i].code
     \/ to_lowercase(str) = LangTable[i].name}

NumericValid(opts) ==
  /\ opts.n_threads.some => opts.n_threads.v >= 1
  /\ opts.beam_size.some => opts.beam_size.v >= 1
  /\ opts.temperature >= 0 /\ opts.temperature <= 100

\* C21: no TranscribeOptions with an invalid numeric option (a thread count
\* or beam size of 0, a temperature outside its range) is built, so none is
\* the options of a call of the pipeline and none reaches the inference call.
C21_NumericOptionsValid ==
  /\ NumericValid(options)
  /\ params.set =>
       /\ params.size >= 1
       /\ params.n_threads.some => params.n_threads.v >= 1
       /\ params.temperature >= 0

\* how often invocation p has called the stage
times(p, stage) == Cardinality({i \in DOMAIN stages[p] : stages[p][i] = stage})

\* the stages of an entry point of the facade
StageNames ==
  {"download_audio", "ensure_model", "load_audio", "transcribe_samples",
   "WhisperContext", "full"}

\* invocation p has met an error: it is on its way out with it, or has
\* returned it
Failed(p) ==
  \/ err[p] # NoErr
  \/ pc[p] = "done" /\ result[p].tag = "Err"

\* C22: no retry and fail fast.  Every stage of an entry point (the
\* downloader, model resolution and its download request, the decoder, engine
\* initialisation, inference) is attempted at most once, and once a stage has
\* failed no stage is called, no request is sent and no process is started:
\* the first error stays the invocation's error and is what it returns.
C22_NoRetryFailFast ==
  /\ [](\A p \in {1} :
          /\ \A stage \in StageNames : times(p, stage) <= 1
          /\ requests[p] <= 1)
  /\ [][\A p \in {1} :
          Failed(p) =>
            /\ Failed(p)'
            /\ stages'[p] = stages[p]
            /\ requests'[p] = requests[p]
            /\ spawned'[p] = spawned[p]
            /\ err[p] # NoErr => (err'[p] = err[p] \/ result'[p] = Err(err[p]))]_vars

\* a URL invocation whose decoder failed after a model download, on its way
\* out through the guard
C22_Witness ==
  /\ pc[1] = "tw_drop"
  /\ err[1].kind = "AudioDecode"
  /\ requests[1] = 1
  /\ stages[1] = <<"download_audio", "ensure_model", "load_audio">>

\* the stages of an entry point, in the order of lib.rs:47-64 and 74-107
StageOrder(e) ==
  (IF e = "transcribe_url" THEN <<"download_audio">> ELSE <<>>)
    \o <<"ensure_model", "load_audio", "transcribe_samples", "WhisperContext",
         "full">>

\* sequence a is the beginning of sequence b
begins(a, b) == Len(a) <= Len(b) /\ \A i \in DOMAIN a : a[i] = b[i]

\* where the stage stands in the stages invocation p has called, 0 if nowhere
position(p, stage) ==
  IF times(p, stage) = 0 THEN 0
  ELSE CHOOSE i \in DOMAIN stages[p] : stages[p][i] = stage

C23_JsonRoundTrip ==
  json.phase = "decoded" => json.back.ok /\ json.back.v = json.doc

\* C25: the bytes download_model has written to its temp file never exceed
\* MAX_MODEL_BYTES; the chunk that would cross the ceiling is not written,
\* the download ends there with a model-download error, whatever length the
\* response advertised.
C25_StreamedCeiling ==
  /\ [](\A p \in {1} :
          \A x \in DOMAIN files :
            files[x].by = p => files[x].size <= MAX_MODEL_KB)
  /\ [][\A p \in {1} :
          (pc[p] = "dm_stream" /\ err'[p].msg = "exceeded")
            => /\ err'[p].kind = "ModelDownload"
               /\ pc'[p] = "dm_drop"
               /\ files' = files]_vars

\* a body of more than the ceiling under no advertised length: the first
\* chunk is in the temp file, the second made the download fail
C25_Witness ==
  /\ pc[1] = "dm_drop"
  /\ err[1].kind = "ModelDownload" /\ err[1].msg = "exceeded"
  /\ exists(tmp(1)) /\ files[tmp(1)].size = 600

\* the processing steps the options enable, in the order of audio.rs:55-70
EnabledSteps(pr) ==
  (IF pr.dc_offset_removal THEN <<"remove_dc_offset">> ELSE <<>>)
    \o (IF pr.normalize THEN <<"normalize_peak">> ELSE <<>>)
    \o (IF pr.trim_silence THEN <<"trim_silence">> ELSE <<>>)

\* C26: load_audio applies DC-offset removal, peak normalization and silence
\* trimming in that order, each at most once and only when its option is
\* enabled, and only after decoding has succeeded; a disabled step leaves the
\* buffer untouched.
C26_ProcessingOrder ==
  /\ [](\A p \in {1} :
          /\ begins(ran, EnabledSteps(processing))
          /\ ran # <<>> => ffmpeg.kind = "success" /\ decode_error(ffmpeg) = ""
          /\ pc[p] = "la_ret" => ran = EnabledSteps(processing))
  /\ [][\A p \in {1} :
          /\ (pc[p] = "la_dc" /\ ~processing.dc_offset_removal)
               => samples' = samples /\ ran' = ran
          /\ (pc[p] = "la_norm" /\ ~processing.normalize)
               => samples' = samples /\ ran' = ran
          /\ (pc[p] = "la_trim" /\ ~processing.trim_silence)
               => samples' = samples /\ ran' = ran]_vars

\* normalization and trimming have run, in that order, on a decoded buffer
\* with DC-offset removal disabled
C26_Witness ==
  /\ pc[1] = "la_ret"
  /\ ~processing.dc_offset_removal
  /\ ran = <<"normalize_peak", "trim_silence">>
  /\ Len(decode(ffmpeg.stdout)) > 0

\* the starts of the active windows of xs: every run of WindowSize consecutive
\* samples is a window
ActiveStarts(xs, db) == {i \in windows(xs, WindowSize) : Active(xs, i, db)}

\* the least and the greatest member of a non-empty set of numbers
least(S) == CHOOSE i \in S : \A j \in S : i <= j
greatest(S) == CHOOSE i \in S : \A j \in S : i >= j

\* C27 as stated: trim_silence examines non-overlapping consecutive windows,
\* so the first and the last active position it finds are multiples of the
\* window length.
C27_WindowPartition ==
  [][\A p \in {1} :
       (pc[p] = "la_trim" /\ pc'[p] = "la_ret" /\ processing.trim_silence)
         => LET threshold == db_to_linear(processing.silence_threshold_db)
                first == find_first_active(samples, WindowSize, threshold)
                last == find_last_active(samples, WindowSize, threshold)
            IN /\ first.some => first.v % WindowSize = 0
               /\ last.some => last.v % WindowSize = 0]_vars

\* C27: trim_silence examines every window of WindowSize consecutive samples,
\* one starting at each sample; the first active position is the start of the
\* first window whose RMS exceeds the threshold, the last active position is
\* the end of the last such window; the result is the input slice between
\* them widened by the padding and clamped to the buffer, and the input
\* itself when no window is active.
C27_SlidingWindows ==
  [][\A p \in {1} :
       (pc[p] = "la_trim" /\ pc'[p] = "la_ret" /\ processing.trim_silence)
         => LET A == ActiveStarts(samples, processing.silence_threshold_db)
                pad == (WHISPER_SAMPLE_RATE * processing.silence_pad_ms) \div 1000
            IN IF A = {} THEN samples' = samples
               ELSE samples' = slice(samples, max(least(A) - pad, 0),
                                     min(greatest(A) + WindowSize + pad,
                                         Len(samples)))]_vars

\* trimming alone has run on a decoded buffer whose first active window
\* starts at sample 1, and has cut it
C27_Witness ==
  /\ pc[1] = "la_ret"
  /\ ran = <<"trim_silence">>
  /\ processing.silence_pad_ms = 0
  /\ LET xs == decode(ffmpeg.stdout)
         A == ActiveStarts(xs, processing.silence_threshold_db)
     IN /\ A # {}
        /\ least(A) = 1
        /\ samples = slice(xs, 1, greatest(A) + WindowSize)
        /\ Len(samples) < Len(xs)

\* the milliseconds of a non-negative time given in half milliseconds,
\* truncated
Truncated(seconds) == seconds \div 2

\* str renders the non-negative time: its four fields, separated by ':', ':'
\* and sep, are the hours, minutes, seconds and milliseconds of the truncated
\* milliseconds, hours, minutes and seconds in 2 digits, milliseconds in 3
RendersTime(str, sep, seconds) ==
  LET t == Truncated(seconds)
      hh == SubSeq(str, 1, 2)
      mm == SubSeq(str, 4, 5)
      ss == SubSeq(str, 7, 8)
      mmm == SubSeq(str, 10, 12)
  IN /\ Len(str) = 12
     /\ <<str[3], str[6], str[9]>> = <<":", ":", sep>>
     /\ IsDigits(hh) /\ IsDigits(mm) /\ IsDigits(ss) /\ IsDigits(mmm)
     /\ number(hh) = t \div 3600000
     /\ number(mm) = (t % 3600000) \div 60000
     /\ number(ss) = (t % 60000) \div 1000
     /\ number(mmm) = t % 1000
     /\ number(mm) < 60 /\ number(ss) < 60 /\ number(mmm) < 1000
     /\ number(hh) * 3600000 + number(mm) * 60000 + number(ss) * 1000
          + number(mmm) = t

\* C28: every non-negative time of a rendered segment is written, in SRT and
\* in WebVTT, as the hours, minutes, seconds and milliseconds of its
\* truncated milliseconds, with minutes and seconds under 60, milliseconds
\* under 1000, and the fields zero-padded to 2, 2, 2 and 3 digits: 3661.999 s
\* is 01:01:01,999 and 0 s is 00:00:00,000.
C28_TimeDecomposition ==
  \A k \in 1..Len(doc.segments) :
    LET seg == doc.segments[k] IN
      /\ (srt.some /\ seg.start >= 0) =>
           LET str == SubSeq(lines(srt.v)[4 * k - 2], 1, 12)
           IN /\ RendersTime(str, ",", seg.start)
              /\ seg.start = 7323999 =>
                   str = <<"0", "1", ":", "0", "1", ":", "0", "1", ",", "9", "9", "9">>
              /\ seg.start = 0 =>
                   str = <<"0", "0", ":", "0", "0", ":", "0", "0", ",", "0", "0", "0">>
      /\ (srt.some /\ seg.end >= 0) =>
           RendersTime(SubSeq(lines(srt.v)[4 * k - 2], 18, 29), ",", seg.end)
      /\ (vtt.some /\ seg.start >= 0) =>
           RendersTime(SubSeq(lines(vtt.v)[3 * k], 1, 12), ".", seg.start)
      /\ (vtt.some /\ seg.end >= 0) =>
           RendersTime(SubSeq(lines(vtt.v)[3 * k], 18, 29), ".", seg.end)

\* both renderings of a transcript whose segments start at 3661.9995 s and
\* at 0 s
C28_Witness ==
  /\ srt.some /\ vtt.some
  /\ Len(doc.segments) = 2
  /\ doc.segments[1].start = 7323999
  /\ doc.segments[2].start = 0
  /\ doc.segments[2].end = 5001

\* C29: when the older crate's download_model has returned an error, no
\* .part file is left in the cache directory; and no file whose size differs
\* from the advertised length is left at the final cache path.
C29_TranskriboCleanup ==
  \A p \in {1} :
    (entry[p] = "transkribo_ensure_model" /\ pc[p] = "done") =>
      /\ result[p].tag = "Err" => ~exists(part(p))
      /\ (exists(dest(p)) /\ files[dest(p)].by = p
          /\ files[dest(p)].adv.some /\ files[dest(p)].adv.v > 0)
           => files[dest(p)].size = files[dest(p)].adv.v

\* C30: two ensure_model calls that run as tasks of one process for the same
\* uncached model do not interfere: no file is written by both, the temp
\* file a call is using is there and is its own until that call renames or
\* removes it, and the file at the final cache path after a successful
\* download is the complete output of one download.
C30_TasksDoNotInterfere ==
  /\ \A x \in DOMAIN files : files[x].by # -1
  /\ \A p \in Procs :
       (IsNamed(p) /\ pc[p] \in {"dm_stream", "dm_verify", "dm_rename"})
         => exists(tmp(p)) /\ files[tmp(p)].by = p
  /\ \A p \in Procs :
       DownloadedOk(p) =>
         /\ exists(dest(p))
         /\ files[dest(p)].eof
         /\ files[dest(p)].by \in Procs


====
